---- MODULE Spec2Model ----
(***************************************************************************)
(* A model of the ACME client of vendor/github.com/xenolf/lego/acme        *)
(* (client.go): the account operations, the certificate order flow         *)
(* (order creation, concurrent authorization fetch, challenge solving in   *)
(* phases, finalization with bounded polling), the solver registry and    *)
(* the domain lists derived from a certificate or a CSR; and of the API    *)
(* key usage middleware of middlewares/apikey (apikey.go, extractor.go).   *)
(*                                                                         *)
(* The signing transport (postJSON, postAsGet), the CA and the solver      *)
(* implementations are outside client.go: every response of theirs is a    *)
(* nondeterministic choice over the values the code distinguishes.         *)
(***************************************************************************)
EXTENDS Integers, Sequences, FiniteSets, TLC

VARIABLES
    \* ---- account state (Client.jws.kid, Client.user) ----
    kid,            \* jws.kid, the signing transport's active account identifier
    userReg,        \* what c.user.GetRegistration() returns
    acctOp,         \* the account operation that returned last
    acctResp,       \* the CA's response to the (first) POST of that operation
    acctReg,        \* the *RegistrationResource it returned
    acctErr,        \* the error it returned
    kidBefore       \* jws.kid when that operation was entered

VARIABLES
    \* ---- solver registry (Client.solvers) ----
    solvers,        \* the challenge types that have a solver registered
    caps,           \* the optional interfaces each type's solver implements
    \* ---- one ObtainCertificate / ObtainCertificateForCSR call ----
    pc,             \* where the call is
    entry,          \* which of the two entry points was called
    bundle,         \* the call's bundle argument
    domains,        \* the domains of the order (order.Domains)
    launched,       \* getAuthzForOrder: fetch goroutines started so far
    gor,            \* getAuthzForOrder: each fetch goroutine's position
    msg,            \* getAuthzForOrder: what a goroutine is sending
    received,       \* getAuthzForOrder: completions collected (the loop's i)
    closed,         \* getAuthzForOrder: resc and errc are closed
    responses,      \* getAuthzForOrder: the authorizations collected
    failures,       \* the ObtainError being built by the running step
    authz,          \* the caller's authz slice
    err,            \* the caller's err after the last step
    authSolvers,    \* solveChallengeForAuthz: the selected pairs
    idx,            \* solveChallengeForAuthz: the running loop's index
    calls,          \* solveChallengeForAuthz: its solver invocations, in order
    posts,          \* finalize (CSR) requests sent
    refetches,      \* order re-fetches of the finalize poll
    elapsed,        \* milliseconds since the poll's timers were started
    retOrder,       \* the order status of the CA's last answer (retOrder.Status)
    lastReq,        \* how the last finalization request ended: "ok" or "error"
    retCert,        \* the *CertificateResource returned
    retErr,         \* the error returned
    reqDomains,     \* createOrderForIdentifiers: its domains argument
    identifiers,    \* the identifiers the new-order request carried
    commonName,     \* the common name finalization used
    certResp        \* the CA's answer to the last certificate download

VARIABLES
    \* ---- NewClient ----
    newClientArgs,  \* what the last NewClient call was given
    built,          \* NewClient returned a *Client
    dirFetches,     \* directory requests NewClient made
    newClientErr,   \* the error NewClient returned
    \* ---- the last RevokeCertificate call ----
    certificates,   \* what parsePEMBundle made of its argument
    revokePosts,    \* revoke requests it sent
    revokeErr,      \* the error it returned
    \* ---- one validate call ----
    vpc,            \* where the call is
    statuses,       \* the challenge statuses received so far, in order
    validateErr     \* the error it returned

VARIABLES
    \* ---- the history of the solver registry ----
    providers,      \* the provider inside each type's solver ("" without one)
    regOp,          \* the registry operation that returned last
    excluded,       \* the types ExcludeChallenges was ever given
    lastChange,     \* per type, the last operation that wrote or deleted its key
    \* ---- the domain list an entry point derives ----
    derived,        \* the last derivation: its input, its outcome
    \* ---- middlewares/apikey: the package and its Usage values ----
    once,           \* the package's sync.Once
    counter,        \* the package's counter (0 is nil, else its creator)
    registrations,  \* the prometheus.Register calls made, in order
    usage,          \* each NewUsage call: its position and what it returned
    served          \* the last ServeHTTP call: its request and what it did

acctVars == <<kid, userReg, acctOp, acctResp, acctReg, acctErr, kidBefore>>

flowVars == <<solvers, caps, pc, entry, bundle, domains, launched, gor, msg, received, closed,
              responses, failures, authz, err, authSolvers, idx, calls, posts,
              refetches, elapsed, retOrder, lastReq, retCert, retErr,
              reqDomains, identifiers, commonName, certResp>>

regVars == <<providers, regOp, excluded, lastChange>>

mwVars == <<once, counter, registrations, usage, served>>

auxVars == <<regVars, derived, mwVars>>

opFrame == <<newClientArgs, built, dirFetches, newClientErr, certificates, revokePosts,
             revokeErr, vpc, statuses, validateErr>>

opVars == <<opFrame, auxVars>>

vars == <<acctVars, flowVars, opVars>>

-----------------------------------------------------------------------------
(* Values *)

\* An absent error (Go's nil error).
NoError == "nil"

\* A nil *RegistrationResource and a resource with the given URI.
NoReg == [isNil |-> TRUE, URI |-> ""]
Reg(uri) == [isNil |-> FALSE, URI |-> uri]

\* The account URLs the CA hands out in Location headers.
AccountURIs == {"acct/1", "acct/2"}

\* What a POST can come back with: no error, a RemoteError with status 409,
\* a RemoteError with another status, or a transport failure.
PostErrors == {NoError, "RemoteError409", "RemoteError400", "NetworkError"}

\* A response as the account operations see it: the error and the Location
\* header of the returned http.Header (empty when the header is absent).
PostResponses == [err : PostErrors, Location : AccountURIs \cup {""}]

-----------------------------------------------------------------------------
(* Account operations *)

\* client.go:195-196: err.(RemoteError) with StatusCode == 409.
IsConflictNever(e) == FALSE
IsConflict(e) == e = "RemoteError409"

\* client.go:206, 254: c.jws.kid = reg.URI.
AdoptKidStale(old, uri) == old
AdoptKid(old, uri) == uri

\* client.go:73-105, the part that sets up the transport: jws.kid is the
\* user's registration URI when the user has one (lines 91-94).
NewClientKid(reg) == IF reg.isNil THEN "" ELSE reg.URI

\* The shared tail of Register and RegisterWithExternalAccountBinding
\* (client.go:192-208, 240-256): POST new-account; a 409 is not an error.
RegisterPost(op, resp) ==
    /\ acctOp' = op
    /\ acctResp' = resp
    /\ kidBefore' = kid
    /\ IF resp.err # NoError /\ ~IsConflict(resp.err)
         THEN /\ acctReg' = NoReg
              /\ acctErr' = resp.err
              /\ UNCHANGED kid
         ELSE /\ acctReg' = Reg(resp.Location)
              /\ kid' = AdoptKid(kid, resp.Location)
              /\ acctErr' = NoError
    /\ UNCHANGED userReg
    /\ UNCHANGED <<flowVars, opVars>>

\* Client.Register (client.go:178-209).  c and c.user are non-nil for every
\* client NewClient returned (it calls user.GetPrivateKey()).
Register ==
    \E resp \in PostResponses : RegisterPost("Register", resp)

\* Client.RegisterWithExternalAccountBinding (client.go:212-257): the hmac
\* key may fail to decode and the EAB content may fail to sign, both before
\* any request.
RegisterWithExternalAccountBinding ==
    \E hmacOk \in BOOLEAN, signOk \in BOOLEAN, resp \in PostResponses :
        IF ~hmacOk \/ ~signOk
          THEN /\ acctOp' = "RegisterWithExternalAccountBinding"
               /\ acctResp' = [err |-> NoError, Location |-> ""]
               /\ acctReg' = NoReg
               /\ acctErr' = IF ~hmacOk THEN "hmac decode" ELSE "eab signing"
               /\ kidBefore' = kid
               /\ UNCHANGED <<kid, userReg>>
               /\ UNCHANGED <<flowVars, opVars>>
          ELSE RegisterPost("RegisterWithExternalAccountBinding", resp)

\* Client.ResolveAccountByKey (client.go:261-283): two POSTs; jws.kid is set
\* to the account link between them (line 276).
ResolveAccountByKey ==
    \E resp \in PostResponses, err2 \in PostErrors :
        /\ acctOp' = "ResolveAccountByKey"
        /\ acctResp' = resp
        /\ kidBefore' = kid
        /\ IF resp.err # NoError
             THEN /\ acctReg' = NoReg
                  /\ acctErr' = resp.err
                  /\ UNCHANGED kid
             ELSE IF resp.Location = ""
               THEN /\ acctReg' = NoReg
                    /\ acctErr' = "no account link"
                    /\ UNCHANGED kid
               ELSE /\ kid' = resp.Location
                    /\ IF err2 # NoError
                         THEN acctReg' = NoReg /\ acctErr' = err2
                         ELSE acctReg' = Reg(resp.Location) /\ acctErr' = NoError
        /\ UNCHANGED userReg
        /\ UNCHANGED <<flowVars, opVars>>

\* Client.QueryRegistration (client.go:306-328).  It dereferences
\* c.user.GetRegistration(): with no registration the call panics.
QueryRegistration ==
    \E e \in PostErrors :
        /\ acctOp' = "QueryRegistration"
        /\ acctResp' = [err |-> e, Location |-> ""]
        /\ kidBefore' = kid
        /\ IF userReg.isNil
             THEN acctReg' = NoReg /\ acctErr' = "panic"
             ELSE IF e # NoError
               THEN acctReg' = NoReg /\ acctErr' = e
               ELSE acctReg' = Reg(userReg.URI) /\ acctErr' = NoError
        /\ UNCHANGED <<kid, userReg>>
        /\ UNCHANGED <<flowVars, opVars>>

\* Client.DeleteRegistration (client.go:287-299).
DeleteRegistration ==
    \E e \in PostErrors :
        /\ acctOp' = "DeleteRegistration"
        /\ acctResp' = [err |-> e, Location |-> ""]
        /\ kidBefore' = kid
        /\ acctReg' = NoReg
        /\ acctErr' = IF userReg.isNil THEN "panic" ELSE e
        /\ UNCHANGED <<kid, userReg>>
        /\ UNCHANGED <<flowVars, opVars>>

\* The caller keeps the resource an operation returned in its User, so that
\* GetRegistration returns it from then on (the User interface is the
\* caller's: client.go:36-40).
StoreRegistration ==
    /\ ~acctReg.isNil
    /\ userReg # acctReg
    /\ userReg' = acctReg
    /\ UNCHANGED <<kid, acctOp, acctResp, acctReg, acctErr, kidBefore>>
    /\ UNCHANGED <<flowVars, opVars>>

-----------------------------------------------------------------------------
(* Values of the certificate flow *)

\* The most authorizations an order carries.
MaxAuthz == 2

\* client.go:782: time.NewTimer(30 * time.Second), in milliseconds.
StopTimerMs == 30000
\* client.go:784: time.NewTicker(500 * time.Millisecond), in milliseconds.
RetryTickMs == 500

HTTP01 == "http-01"
DNS01 == "dns-01"
TLSALPN01 == "tls-alpn-01"
ChallengeTypes == {HTTP01, DNS01, TLSALPN01}

statusValid == "valid"
statusInvalid == "invalid"

\* The names a caller asks for, in the order it gives them.
DomainNames == <<"a.test", "b.test", "c.test", "d.test">>
DomainOf(i) == DomainNames[i]
\* The zero value of authorization.Identifier.Value.
NoDomain == ""

\* The challenge lists the CA offers for an authorization.
ChallengeLists == {<<DNS01, HTTP01>>, <<DNS01>>}

\* An ObtainError: a map from domain to error.
EmptyMap == [d \in {} |-> NoError]
Put(f, k, v) == [d \in DOMAIN f \cup {k} |-> IF d = k THEN v ELSE f[d]]
Get(f, k) == IF k \in DOMAIN f THEN f[k] ELSE NoError

\* Go error values of the flow: nil, a plain error, an ObtainError.
NilErr == [kind |-> "nil", text |-> "", failures |-> EmptyMap]
PlainErr(t) == [kind |-> "error", text |-> t, failures |-> EmptyMap]
ObtainErr(f) == [kind |-> "ObtainError", text |-> "", failures |-> f]

\* No certificate was downloaded.
NoDownload == [certOk |-> FALSE, up |-> FALSE, issuerOk |-> FALSE, chain |-> FALSE]

\* A nil *CertificateResource.
NilCert == [isNil |-> TRUE, Domain |-> "", Certificate |-> <<>>,
            IssuerCertificate |-> <<>>]

\* client.go:640-643, 696-699, 398-401, 455-458: an ObtainError is returned
\* as the error only when it has an entry; an empty one becomes nil.
AsErrorAlways(f) == ObtainErr(f)
AsErrorNever(f) == NilErr
AsError(f) == IF Cardinality(DOMAIN f) > 0 THEN ObtainErr(f) ELSE NilErr

Min(S) == CHOOSE x \in S : \A y \in S : x <= y

-----------------------------------------------------------------------------
(* Solver registry *)

\* NewClient (client.go:99-102): HTTP-01 and TLS-ALPN-01 have solvers.
DefaultSolvers == {HTTP01, TLSALPN01}

\* Which of the optional interfaces preSolver and cleanup (client.go:49-56)
\* a type's solver implements is decided by the solver types, which are not
\* part of client.go: it is fixed per type and otherwise arbitrary.  No CA
\* of this model offers TLS-ALPN-01, whose solver is taken as solve-only.
CapChoices ==
    {c \in [ChallengeTypes -> SUBSET {"preSolver", "cleanup"}] : c[TLSALPN01] = {}}

\* The solver types as the interfaces' comments describe them (client.go:47,
\* 53: "for challenges like dns"): DNS-01 pre-solves and cleans up, the
\* others only solve.
DnsCaps == [t \in ChallengeTypes |->
              IF t = DNS01 THEN {"preSolver", "cleanup"} ELSE {}]

\* A challenge type none of the cases of SetChallengeProvider names.
UnknownChallenge == "unknown-01"
RegistryArgs == ChallengeTypes \cup {UnknownChallenge}

NoRegOp == [op |-> "none", arg |-> {}, err |-> NoError]

\* Everything of the certificate flow but the registry's keys.
registryFrame == <<caps, pc, entry, bundle, domains, launched, gor, msg, received,
                   closed, responses, failures, authz, err, authSolvers, idx,
                   calls, posts, refetches, elapsed, retOrder, lastReq, retCert,
                   retErr, reqDomains, identifiers, commonName, certResp>>

\* Client.SetChallengeProvider (client.go:108-120): for one of the three
\* known types the type's solver is replaced by one around the provider;
\* for any other type an error is returned.
SetChallengeProviderOf(t) ==
    /\ pc = "idle"
    /\ built
    /\ t \in RegistryArgs
    /\ IF t \in ChallengeTypes
         THEN /\ solvers' = solvers \cup {t}
              /\ providers' = [providers EXCEPT ![t] = "custom"]
              /\ lastChange' = [lastChange EXCEPT ![t] = "SetChallengeProvider"]
              /\ regOp' = [op |-> "SetChallengeProvider", arg |-> {t},
                           err |-> NoError]
         ELSE /\ UNCHANGED <<solvers, providers, lastChange>>
              /\ regOp' = [op |-> "SetChallengeProvider", arg |-> {t},
                           err |-> "unknown challenge"]
    /\ UNCHANGED <<excluded, derived, mwVars, opFrame, acctVars, registryFrame>>

\* The loop of ExcludeChallenges: delete(c.solvers, challenge) for each.
WithoutChallengesFirst(s, ts) == s \ {CHOOSE t \in ts : TRUE}
WithoutChallenges(s, ts) == s \ ts

\* Client.ExcludeChallenges (client.go:160-165).
ExcludeChallenges(ts) ==
    /\ pc = "idle"
    /\ built
    /\ ts \in SUBSET RegistryArgs
    /\ ts # {}
    /\ solvers' = WithoutChallenges(solvers, ts)
    /\ providers' = [t \in ChallengeTypes |->
                       IF t \in solvers' THEN providers[t] ELSE ""]
    /\ excluded' = excluded \cup (ts \cap ChallengeTypes)
    /\ lastChange' = [t \in ChallengeTypes |->
                        IF t \in ts THEN "ExcludeChallenges" ELSE lastChange[t]]
    /\ regOp' = [op |-> "ExcludeChallenges", arg |-> ts, err |-> NoError]
    /\ UNCHANGED <<derived, mwVars, opFrame, acctVars, registryFrame>>

\* SetHTTPAddress and SetTLSAddress (client.go:128-139, 147-157): when
\* net.SplitHostPort rejects the address its error is returned; else, if
\* the type has a solver, that solver's provider becomes a server on the
\* address.  The map is read, never written.
SetAddress(op, t) ==
    /\ pc = "idle"
    /\ built
    /\ \E ifaceOk \in BOOLEAN :
        IF ~ifaceOk
          THEN /\ regOp' = [op |-> op, arg |-> {t}, err |-> "missing port in address"]
               /\ UNCHANGED providers
          ELSE /\ regOp' = [op |-> op, arg |-> {t}, err |-> NoError]
               /\ providers' = IF t \in solvers
                                 THEN [providers EXCEPT ![t] = "server"]
                                 ELSE providers
    /\ UNCHANGED <<solvers, excluded, lastChange>>
    /\ UNCHANGED <<derived, mwVars, opFrame, acctVars, registryFrame>>

SetHTTPAddress == SetAddress("SetHTTPAddress", HTTP01)

SetTLSAddress == SetAddress("SetTLSAddress", TLSALPN01)

\* The registry's history when the registry is s and no more operations
\* than s needs were made on the new client.
InitRegistry ==
    /\ providers = [t \in ChallengeTypes |->
                      IF t \notin solvers THEN ""
                      ELSE IF t \in DefaultSolvers THEN "default" ELSE "custom"]
    /\ excluded = DefaultSolvers \ solvers
    /\ lastChange = [t \in ChallengeTypes |->
                       IF t \in DefaultSolvers
                         THEN IF t \in solvers THEN "NewClient" ELSE "ExcludeChallenges"
                       ELSE IF t \in solvers THEN "SetChallengeProvider" ELSE "none"]
    /\ regOp = NoRegOp

-----------------------------------------------------------------------------
(* ObtainCertificate and ObtainCertificateForCSR: order creation *)

AuthzIds == 1..MaxAuthz

\* Nothing in a goroutine's hands.
NoMsg == [id |-> 0, Domain |-> NoDomain, Status |-> "", Challenges |-> <<>>,
          Error |-> NoError]

\* An authorization with identifier d as the CA may serve it for
\* authorization URL i: already valid, or pending with a list of challenges.
AuthorizationsFor(i, d) ==
    {[id |-> i, Domain |-> d, Status |-> statusValid,
      Challenges |-> <<DNS01, HTTP01>>, Error |-> NoError]}
    \cup
    {[id |-> i, Domain |-> d, Status |-> "pending", Challenges |-> c,
      Error |-> NoError] : c \in ChallengeLists}

\* The order has one authorization per identifier: the i-th authorization
\* URL serves the authorization of the i-th name.
Authorizations(i) == AuthorizationsFor(i, DomainOf(i))

\* The domainError of a failed fetch (client.go:670): its Domain is read
\* from the authz the failed postAsGet was decoding into, which is the zero
\* value unless the failure came after the identifier was decoded.
DomainErrors(i) ==
    {[id |-> i, Domain |-> d, Status |-> "", Challenges |-> <<>>,
      Error |-> "fetch error"] : d \in {NoDomain, DomainOf(i)}}

FirstNames(n) == [i \in 1..n |-> DomainOf(i)]

Reverse(s) == [i \in 1..Len(s) |-> s[Len(s) + 1 - i]]

\* The domain lists a caller asks for: the first n names, in either order.
NameOrders(n) == {FirstNames(n), Reverse(FirstNames(n))}

\* client.go:543-546: one "dns" identifier per domain, in the domains' order.
Identifiers(ds) == [i \in 1..Len(ds) |-> [Type |-> "dns", Value |-> ds[i]]]

\* client.go:725, 751: commonName := order.Domains[0].
CommonNameLast(ds) == ds[Len(ds)]
CommonName(ds) == ds[1]

\* No ObtainCertificate or ObtainCertificateForCSR call was made yet.
InitCall ==
    /\ pc = "idle"
    /\ entry = ""
    /\ bundle = FALSE
    /\ domains = <<>>
    /\ launched = 0
    /\ gor = [i \in AuthzIds |-> "unborn"]
    /\ msg = [i \in AuthzIds |-> NoMsg]
    /\ received = 0
    /\ closed = FALSE
    /\ responses = <<>>
    /\ failures = EmptyMap
    /\ authz = <<>>
    /\ err = NilErr
    /\ authSolvers = <<>>
    /\ idx = 0
    /\ calls = <<>>
    /\ posts = 0
    /\ refetches = 0
    /\ elapsed = 0
    /\ retOrder = ""
    /\ lastReq = "none"
    /\ retCert = NilCert
    /\ retErr = NilErr
    /\ reqDomains = <<>>
    /\ identifiers = <<>>
    /\ commonName = ""
    /\ certResp = NoDownload

InitFlow ==
    /\ solvers = DefaultSolvers
    /\ caps = DnsCaps
    /\ InitCall

\* return cert, e from the entry point.
Return(cert, e) ==
    /\ pc' = "done"
    /\ retCert' = cert
    /\ retErr' = e

\* createOrderForIdentifiers (client.go:542-564) as the entry points use it
\* (client.go:362-365, 424-427): a failed POST ends the call; otherwise the
\* order carries one authorization URL per identifier.
CreateOrder(name, ds, b, orderOk) ==
    /\ entry' = name
    /\ bundle' = b
    /\ reqDomains' = ds
    /\ identifiers' = Identifiers(ds)
    /\ domains' = IF orderOk THEN ds ELSE <<>>
    /\ IF orderOk
         THEN /\ pc' = "launch"
              /\ UNCHANGED <<retCert, retErr>>
         ELSE Return(NilCert, PlainErr("new-order failed"))
    /\ UNCHANGED <<solvers, caps, launched, gor, msg, received, closed, responses,
                   failures, authz, err, authSolvers, idx, calls, posts,
                   refetches, elapsed, retOrder, lastReq>>
    /\ UNCHANGED <<acctVars, opVars, commonName, certResp>>

\* Client.ObtainCertificate (client.go:413-427): no domains is an error.
ObtainCertificate ==
    /\ pc = "idle"
    /\ \E n \in 0..MaxAuthz, b \in BOOLEAN, orderOk \in BOOLEAN :
        IF n = 0
          THEN /\ entry' = "ObtainCertificate"
               /\ bundle' = b
               /\ Return(NilCert, PlainErr("no domains"))
               /\ UNCHANGED <<solvers, caps, domains, launched, gor, msg, received,
                              closed, responses, failures, authz, err,
                              authSolvers, idx, calls, posts, refetches,
                              elapsed, retOrder, lastReq>>
               /\ UNCHANGED <<acctVars, opVars, reqDomains, identifiers, commonName, certResp>>
          ELSE \E ds \in NameOrders(n) :
                  CreateOrder("ObtainCertificate", ds, b, orderOk)

\* Client.ObtainCertificateForCSR (client.go:337-365): the domains are the
\* CSR's common name and its other names, so there is at least one.
ObtainCertificateForCSR ==
    /\ pc = "idle"
    /\ \E n \in 1..MaxAuthz, b \in BOOLEAN, orderOk \in BOOLEAN :
        \E ds \in NameOrders(n) :
            CreateOrder("ObtainCertificateForCSR", ds, b, orderOk)

-----------------------------------------------------------------------------
(* getAuthzForOrder (client.go:658-700) *)

\* len(order.Authorizations): one authorization URL per identifier.
NumAuthz == Len(domains)

\* client.go:680: the collecting loop runs len(order.Authorizations) times.
CompletionsAwaitedShort == NumAuthz - 1
CompletionsAwaited == NumAuthz

fetchFrame == <<solvers, caps, entry, bundle, domains, authSolvers, idx, calls, posts,
                refetches, elapsed, retOrder, lastReq>>

\* client.go:663-676: the loop starts one goroutine per authorization URL.
LaunchFetch ==
    /\ pc = "launch"
    /\ launched < NumAuthz
    /\ launched' = launched + 1
    /\ gor' = [gor EXCEPT ![launched + 1] = "fetching"]
    /\ pc' = IF launched + 1 = NumAuthz THEN "collect" ELSE "launch"
    /\ UNCHANGED <<msg, received, closed, responses, failures, authz, err,
                   retCert, retErr>>
    /\ UNCHANGED fetchFrame
    /\ UNCHANGED <<acctVars, opVars, reqDomains, identifiers, commonName, certResp>>

\* client.go:667-674: a goroutine's postAsGet returns; the goroutine goes on
\* to send the authorization on resc or a domainError on errc.
FetchReturns(g) ==
    /\ gor[g] = "fetching"
    /\ \E m \in Authorizations(g) \cup DomainErrors(g) :
        /\ msg' = [msg EXCEPT ![g] = m]
        /\ gor' = [gor EXCEPT ![g] =
                      IF m.Error = NoError THEN "sendRes" ELSE "sendErr"]
    /\ UNCHANGED <<pc, launched, received, closed, responses, failures, authz,
                   err, retCert, retErr>>
    /\ UNCHANGED fetchFrame
    /\ UNCHANGED <<acctVars, opVars, reqDomains, identifiers, commonName, certResp>>

\* client.go:669-674: the goroutine returns after its send on errc, and
\* ends after its send on resc.
AfterSendOnErrc(at) == IF at = "sendErr" THEN "sendRes" ELSE "done"
AfterSend(at) == "done"

\* client.go:680-687: one iteration of the collecting loop: the select takes
\* a value from a goroutine blocked in its send (the channels are
\* unbuffered), which then ends.
Collect(g) ==
    /\ pc = "collect"
    /\ received < CompletionsAwaited
    /\ ~closed
    /\ gor[g] \in {"sendRes", "sendErr"}
    /\ IF gor[g] = "sendRes"
         THEN /\ responses' = Append(responses, msg[g])
              /\ UNCHANGED failures
         ELSE /\ failures' = Put(failures, msg[g].Domain, msg[g].Error)
              /\ UNCHANGED responses
    /\ received' = received + 1
    /\ gor' = [gor EXCEPT ![g] = AfterSend(gor[g])]
    /\ msg' = [msg EXCEPT ![g] = NoMsg]
    /\ UNCHANGED <<pc, launched, closed, authz, err, retCert, retErr>>
    /\ UNCHANGED fetchFrame
    /\ UNCHANGED <<acctVars, opVars, reqDomains, identifiers, commonName, certResp>>

\* client.go:689-699 and the caller's check (client.go:366-373, 428-435):
\* the channels are closed, the failures become the error unless there are
\* none, and an error ends the call with no certificate.
FetchDone ==
    /\ pc = "collect"
    /\ received >= CompletionsAwaited
    /\ closed' = TRUE
    /\ authz' = responses
    /\ err' = AsError(failures)
    /\ IF err'.kind # "nil"
         THEN Return(NilCert, err')
         ELSE /\ pc' = "select"
              /\ UNCHANGED <<retCert, retErr>>
    /\ UNCHANGED <<launched, gor, msg, received, responses, failures>>
    /\ UNCHANGED fetchFrame
    /\ UNCHANGED <<acctVars, opVars, reqDomains, identifiers, commonName, certResp>>

-----------------------------------------------------------------------------
(* solveChallengeForAuthz (client.go:575-644) *)

\* Client.chooseSolver (client.go:647-655): the first challenge, in the
\* CA's order, whose type has a solver.  Challenges are numbered from 1
\* here; found = FALSE is the nil solver.
ChooseSolverLast(auth) ==
    LET ok == {i \in 1..Len(auth.Challenges) : auth.Challenges[i] \in solvers}
    IN  IF ok = {} THEN [found |-> FALSE, index |-> 1, solver |-> ""]
        ELSE [found |-> TRUE, index |-> Len(auth.Challenges),
              solver |-> auth.Challenges[Len(auth.Challenges)]]
ChooseSolver(auth) ==
    LET ok == {i \in 1..Len(auth.Challenges) : auth.Challenges[i] \in solvers}
    IN  IF ok = {} THEN [found |-> FALSE, index |-> 1, solver |-> ""]
        ELSE [found |-> TRUE, index |-> Min(ok),
              solver |-> auth.Challenges[Min(ok)]]

\* client.go:582: an authorization that is already valid is skipped.
AlreadyValidNever(auth) == FALSE
AlreadyValid(auth) == auth.Status = statusValid

\* client.go:581-596, the authSolvers it builds: a pair for every
\* authorization that is not yet valid and has a solver, in order.
RECURSIVE SelectedPairs(_)
SelectedPairs(as) ==
    IF as = <<>> THEN <<>>
    ELSE LET a == Head(as)
             c == ChooseSolver(a)
         IN  IF ~AlreadyValid(a) /\ c.found
               THEN <<[authz |-> a, challengeIndex |-> c.index,
                       solver |-> c.solver]>> \o SelectedPairs(Tail(as))
               ELSE SelectedPairs(Tail(as))

\* client.go:594: the failures the selection records.
SelectFailures(as) ==
    LET bad == {i \in 1..Len(as) :
                   ~AlreadyValid(as[i]) /\ ~ChooseSolver(as[i]).found}
    IN  [d \in {as[i].Domain : i \in bad} |-> "could not determine solvers"]

\* client.go:613, 629: failures[domain] != nil, "already failed in previous
\* loop".
AlreadyFailedNever(f, d) == FALSE
AlreadyFailedAny(f, d) == DOMAIN f # {}
AlreadyFailed(f, d) == Get(f, d) # NoError

solveFrame == <<solvers, caps, entry, bundle, domains, launched, gor, msg,
                received, closed, responses, authz, posts, refetches, elapsed,
                retOrder, lastReq>>

\* The next loop of solveChallengeForAuthz after the one at phase p.
AfterPhaseCleanUpFirst(p) ==
    CASE p = "select" -> "presolve"
      [] p = "presolve" -> "cleanup"
      [] p = "cleanup" -> "solve"
      [] p = "solve" -> "solved"
AfterPhase(p) ==
    CASE p = "select" -> "presolve"
      [] p = "presolve" -> "solve"
      [] p = "solve" -> "cleanup"
      [] p = "cleanup" -> "solved"

\* Move to the next item of the running loop, or to the next loop.
Advance(n) ==
    IF idx < n
      THEN pc' = pc /\ idx' = idx + 1
      ELSE pc' = AfterPhase(pc) /\ idx' = 1

\* client.go:576-596: the first pass selects a solver per authorization.
SelectSolvers ==
    /\ pc = "select"
    /\ authSolvers' = SelectedPairs(authz)
    /\ failures' = SelectFailures(authz)
    /\ idx' = 1
    /\ pc' = IF authSolvers' = <<>> THEN "solved" ELSE "presolve"
    /\ UNCHANGED <<err, calls, retCert, retErr>>
    /\ UNCHANGED solveFrame
    /\ UNCHANGED <<acctVars, opVars, reqDomains, identifiers, commonName, certResp>>

Call(op, item, ok) == [op |-> op, id |-> item.authz.id, ok |-> ok]

\* client.go:599-607: one iteration of the pre-solve loop.
PreSolveStep ==
    /\ pc = "presolve"
    /\ LET item == authSolvers[idx]
       IN  IF "preSolver" \in caps[item.solver]
             THEN \E ok \in BOOLEAN :
                    /\ calls' = Append(calls, Call("PreSolve", item, ok))
                    /\ failures' = IF ok THEN failures
                                   ELSE Put(failures, item.authz.Domain,
                                            "presolve error")
             ELSE UNCHANGED <<calls, failures>>
    /\ Advance(Len(authSolvers))
    /\ UNCHANGED <<err, authSolvers, retCert, retErr>>
    /\ UNCHANGED solveFrame
    /\ UNCHANGED <<acctVars, opVars, reqDomains, identifiers, commonName, certResp>>

\* client.go:626-636: one iteration of the solve loop.
SolveStep ==
    /\ pc = "solve"
    /\ LET item == authSolvers[idx]
       IN  IF AlreadyFailed(failures, item.authz.Domain)
             THEN UNCHANGED <<calls, failures>>
             ELSE \E ok \in BOOLEAN :
                    /\ calls' = Append(calls, Call("Solve", item, ok))
                    /\ failures' = IF ok THEN failures
                                   ELSE Put(failures, item.authz.Domain,
                                            "solve error")
    /\ Advance(Len(authSolvers))
    /\ UNCHANGED <<err, authSolvers, retCert, retErr>>
    /\ UNCHANGED solveFrame
    /\ UNCHANGED <<acctVars, opVars, reqDomains, identifiers, commonName, certResp>>

\* client.go:616-619: the failure map after a CleanUp call for domain d
\* returned; its error is only logged.
AfterCleanUpEscalated(f, d, ok) ==
    IF ok THEN f ELSE Put(f, d, "cleanup error")
AfterCleanUp(f, d, ok) == f

\* client.go:609-623: one iteration of the deferred clean-up loop, which
\* runs when the function returns.
CleanUpStep ==
    /\ pc = "cleanup"
    /\ LET item == authSolvers[idx]
       IN  IF "cleanup" \in caps[item.solver]
              /\ ~AlreadyFailed(failures, item.authz.Domain)
             THEN \E ok \in BOOLEAN :
                    /\ calls' = Append(calls, Call("CleanUp", item, ok))
                    /\ failures' = AfterCleanUp(failures, item.authz.Domain, ok)
             ELSE UNCHANGED <<calls, failures>>
    /\ Advance(Len(authSolvers))
    /\ UNCHANGED <<err, authSolvers, retCert, retErr>>
    /\ UNCHANGED solveFrame
    /\ UNCHANGED <<acctVars, opVars, reqDomains, identifiers, commonName, certResp>>

\* client.go:638-643 and the caller's check (client.go:375-379, 437-441).
SolveReturn ==
    /\ pc = "solved"
    /\ err' = AsError(failures)
    /\ IF err'.kind # "nil"
         THEN Return(NilCert, err')
         ELSE /\ pc' = "finalize"
              /\ UNCHANGED <<retCert, retErr>>
    /\ UNCHANGED <<failures, authSolvers, idx, calls>>
    /\ UNCHANGED solveFrame
    /\ UNCHANGED <<acctVars, opVars, reqDomains, identifiers, commonName, certResp>>

-----------------------------------------------------------------------------
(* requestCertificateForOrder / requestCertificateForCsr (client.go:715-806) *)

\* The order statuses the CA answers with; "pending" stands for every
\* status the switch of checkCertResponse has no case for.
OrderStatuses == {statusValid, statusInvalid, "processing", "pending"}

\* What the CA does when the certificate is downloaded: the download fails;
\* or the response has an "up" link and the issuer download works or fails;
\* or it has no link and the body holds the leaf alone or the issuer after it.
CertDownloads ==
    {[certOk |-> FALSE, up |-> FALSE, issuerOk |-> FALSE, chain |-> FALSE],
     [certOk |-> TRUE, up |-> TRUE, issuerOk |-> TRUE, chain |-> FALSE],
     [certOk |-> TRUE, up |-> TRUE, issuerOk |-> FALSE, chain |-> FALSE],
     [certOk |-> TRUE, up |-> FALSE, issuerOk |-> FALSE, chain |-> TRUE],
     [certOk |-> TRUE, up |-> FALSE, issuerOk |-> FALSE, chain |-> FALSE]}

\* The CA's answer to the finalize POST or to an order re-fetch: the request
\* fails, or the order comes back with a status (and, when the status is
\* valid, the certificate is downloaded next).
OrderResponses ==
    {[ok |-> FALSE, status |-> "", ca |-> NoDownload]}
    \cup {[ok |-> TRUE, status |-> st, ca |-> NoDownload] :
             st \in OrderStatuses \ {statusValid}}
    \cup {[ok |-> TRUE, status |-> statusValid, ca |-> c] : c \in CertDownloads}

\* client.go:841-845: with bundle the issuer PEM is appended to the leaf.
BundledAlways(body, issuer, bndl) == body \o issuer
Bundled(body, issuer, bndl) == IF bndl THEN body \o issuer ELSE body

\* Client.checkCertResponse (client.go:813-869): (done, err) and the
\* certificate resource it filled.  Certificates are lists of PEM blocks.
CheckCertResponse(status, ca, cn, bndl) ==
    CASE status = statusValid ->
           IF ~ca.certOk
             THEN [done |-> FALSE, err |-> "certificate download failed",
                   cert |-> NilCert]
             ELSE LET body == IF ~ca.up /\ ca.chain THEN <<"leaf", "issuer">>
                              ELSE <<"leaf">>
                      issuer == IF ca.up
                                  THEN IF ca.issuerOk THEN <<"issuer">> ELSE <<>>
                                  ELSE Tail(body)
                      bytes == IF ca.up /\ ca.issuerOk
                                 THEN Bundled(body, <<"issuer">>, bndl)
                                 ELSE body
                  IN  [done |-> TRUE, err |-> NoError,
                       cert |-> [isNil |-> FALSE, Domain |-> cn,
                                 Certificate |-> bytes,
                                 IssuerCertificate |-> issuer]]
      [] status = "processing" ->
           [done |-> FALSE, err |-> NoError, cert |-> NilCert]
      [] status = statusInvalid ->
           [done |-> FALSE, err |-> "order has invalid state: invalid",
            cert |-> NilCert]
      [] OTHER ->
           [done |-> FALSE, err |-> NoError, cert |-> NilCert]

\* client.go:383-401, 445-458: the entry point's last step.  An error of the
\* finalization is recorded for every authorization's domain.
FinalFailuresFirst(e) ==
    IF e = NoError THEN EmptyMap
    ELSE [d \in {authz[1].Domain} |-> e]
FinalFailures(e) ==
    IF e = NoError THEN EmptyMap
    ELSE [d \in {authz[i].Domain : i \in 1..Len(authz)} |-> e]

Finish(cert, e) ==
    /\ failures' = FinalFailures(e)
    /\ err' = IF e = NoError THEN NilErr ELSE PlainErr(e)
    /\ Return(cert, AsError(failures'))

\* client.go:760-762: the finalize response reports the order invalid; the
\* error returned is the err of the POST, which is nil here.
InvalidAtFinalizeErr == NoError

\* client.go:784, 791: the ticker's next tick comes no later than the
\* timer's deadline.
TickDueAlways(t) == TRUE
TickDue(t) == t + RetryTickMs <= StopTimerMs

\* client.go:782, 789: the timer's deadline comes no later than the ticker's
\* next tick.
DeadlineDue(t) == t + RetryTickMs >= StopTimerMs

finalFrame == <<solvers, caps, entry, bundle, domains, launched, gor, msg,
                received, closed, responses, authz, authSolvers, idx, calls>>

\* What follows an answer with an order status (client.go:770-780, 797-803).
AfterStatus(status, ca) ==
    LET r == CheckCertResponse(status, ca, CommonName(domains), bundle)
    IN  IF r.err # NoError THEN Finish(NilCert, r.err)
        ELSE IF r.done THEN Finish(r.cert, NoError)
        ELSE /\ pc' = "poll"
             /\ UNCHANGED <<failures, err, retCert, retErr>>

\* client.go:715-780: the key and the CSR are made (ObtainCertificate only),
\* the CSR is POSTed to the finalize URL and the response is looked at.
\* solveChallengeForAuthz has returned: its pairs and the record of its
\* solver invocations are dropped here.
FinalizePost ==
    /\ pc = "finalize"
    /\ \E csrOk \in BOOLEAN, resp \in OrderResponses :
        IF entry = "ObtainCertificate" /\ ~csrOk
          THEN /\ Finish(NilCert, "csr generation failed")
               /\ UNCHANGED <<posts, retOrder, lastReq, certResp>>
          ELSE /\ posts' = posts + 1
               /\ certResp' = resp.ca
               /\ IF ~resp.ok
                    THEN /\ lastReq' = "error"
                         /\ UNCHANGED retOrder
                         /\ Finish(NilCert, "finalize failed")
                    ELSE /\ lastReq' = "ok"
                         /\ retOrder' = resp.status
                         /\ IF resp.status = statusInvalid
                              THEN Finish(NilCert, InvalidAtFinalizeErr)
                              ELSE AfterStatus(resp.status, resp.ca)
    /\ authSolvers' = <<>>
    /\ idx' = 0
    /\ calls' = <<>>
    /\ UNCHANGED <<refetches, elapsed>>
    /\ UNCHANGED <<solvers, caps, entry, bundle, domains, launched, gor, msg,
                   received, closed, responses, authz>>
    /\ commonName' = CommonName(domains)
    /\ UNCHANGED <<acctVars, opVars, reqDomains, identifiers>>

\* client.go:791-803: the ticker fires before the deadline has passed; the
\* order is fetched again and its status looked at.  The tick that is due
\* at the deadline itself races with the timer.
PollTick ==
    /\ pc = "poll"
    /\ TickDue(elapsed)
    /\ elapsed' = elapsed + RetryTickMs
    /\ refetches' = refetches + 1
    /\ \E resp \in OrderResponses :
        /\ certResp' = resp.ca
        /\ IF ~resp.ok
             THEN /\ lastReq' = "error"
                  /\ UNCHANGED retOrder
                  /\ Finish(NilCert, "order fetch failed")
             ELSE /\ lastReq' = "ok"
                  /\ retOrder' = resp.status
                  /\ AfterStatus(resp.status, resp.ca)
    /\ UNCHANGED posts
    /\ UNCHANGED finalFrame
    /\ UNCHANGED <<acctVars, opVars, reqDomains, identifiers, commonName>>

\* client.go:789-790: the 30-second timer fires.
PollTimeout ==
    /\ pc = "poll"
    /\ DeadlineDue(elapsed)
    /\ Finish(NilCert, "certificate polling timed out")
    /\ UNCHANGED <<posts, refetches, elapsed, retOrder, lastReq>>
    /\ UNCHANGED finalFrame
    /\ UNCHANGED <<acctVars, opVars, reqDomains, identifiers, commonName, certResp>>

-----------------------------------------------------------------------------
(* NewClient (client.go:73-105) *)

\* What the directory request gives: it fails, or the document is decoded
\* with or without its new-account and new-order URLs.
Directories ==
    [ok : {TRUE}, NewAccountURL : {"", "acct"}, NewOrderURL : {"", "order"}]
    \cup {[ok |-> FALSE, NewAccountURL |-> "", NewOrderURL |-> ""]}

\* client.go:84, 87: a required URL the directory does not have.
MissingNever(url) == FALSE
Missing(url) == url = ""

\* No NewClient call was made.
NoArgs == [called |-> FALSE, keyNil |-> FALSE,
           dir |-> [ok |-> FALSE, NewAccountURL |-> "", NewOrderURL |-> ""]]

\* The error NewClient returns and the directory requests it made.
NewClientResult(keyNil, dir) ==
    IF keyNil
      THEN [err |-> "private key was nil", fetches |-> 0]
    ELSE IF ~dir.ok
      THEN [err |-> "get directory failed", fetches |-> 1]
    ELSE IF Missing(dir.NewAccountURL)
      THEN [err |-> "directory missing new registration URL", fetches |-> 1]
    ELSE IF Missing(dir.NewOrderURL)
      THEN [err |-> "directory missing new order URL", fetches |-> 1]
    ELSE [err |-> NoError, fetches |-> 1]

NewClient ==
    /\ ~built
    /\ \E keyNil \in BOOLEAN, dir \in Directories :
        LET r == NewClientResult(keyNil, dir)
        IN  /\ dirFetches' = r.fetches
            /\ newClientErr' = r.err
            /\ newClientArgs' = [called |-> TRUE, keyNil |-> keyNil, dir |-> dir]
            /\ IF r.err = NoError
                 THEN /\ built' = TRUE
                      /\ kid' = NewClientKid(userReg)
                      /\ solvers' = DefaultSolvers
                      /\ providers' = [t \in ChallengeTypes |->
                                         IF t \in DefaultSolvers THEN "default" ELSE ""]
                      /\ lastChange' = [t \in ChallengeTypes |->
                                          IF t \in DefaultSolvers
                                            THEN "NewClient" ELSE "none"]
                 ELSE UNCHANGED <<built, kid, solvers, providers, lastChange>>
            /\ regOp' = [op |-> "NewClient", arg |-> {}, err |-> r.err]
    /\ UNCHANGED <<excluded, derived, mwVars>>
    /\ UNCHANGED <<userReg, acctOp, acctResp, acctReg, acctErr, kidBefore>>
    /\ UNCHANGED <<caps, pc, entry, bundle, domains, launched, gor, msg,
                   received, closed, responses, failures, authz, err,
                   authSolvers, idx, calls, posts, refetches, elapsed,
                   retOrder, lastReq, retCert, retErr, reqDomains,
                   identifiers, commonName, certResp>>
    /\ UNCHANGED <<certificates, revokePosts, revokeErr, vpc, statuses,
                   validateErr>>

-----------------------------------------------------------------------------
(* RevokeCertificate (client.go:462-477) *)

MaxCerts == 2

\* No RevokeCertificate call was made.
NoBundle == [called |-> FALSE, err |-> NoError, certs |-> <<>>]

\* What parsePEMBundle makes of the argument: an error, or the decoded
\* certificates, of which there is at least one; of a certificate only
\* IsCA matters here.
PEMBundles ==
    {[called |-> TRUE, err |-> "pem parse error", certs |-> <<>>]}
    \cup {[called |-> TRUE, err |-> NoError, certs |-> cs] :
             cs \in UNION {[1..n -> [IsCA : BOOLEAN]] : n \in 1..MaxCerts}}

\* client.go:468: x509Cert := certificates[0].
LastCertificate(cs) == cs[Len(cs)]
LeadingCertificate(cs) == cs[1]

RevokeCertificate ==
    /\ built
    /\ \E b \in PEMBundles, postErr \in PostErrors :
        /\ certificates' = b
        /\ IF b.err # NoError
             THEN /\ revokeErr' = b.err
                  /\ revokePosts' = 0
           ELSE IF LeadingCertificate(b.certs).IsCA
             THEN /\ revokeErr' = "Certificate bundle starts with a CA certificate"
                  /\ revokePosts' = 0
           ELSE /\ revokePosts' = 1
                /\ revokeErr' = postErr
    /\ UNCHANGED <<built, dirFetches, newClientErr, newClientArgs, vpc,
                   statuses, validateErr>>
    /\ UNCHANGED <<acctVars, flowVars, auxVars>>

-----------------------------------------------------------------------------
(* validate (client.go:914-956) *)

MaxPolls == 5

\* The challenge statuses a response can carry; "deactivated" stands for
\* every status the switch has no case for.
ChallengeStatuses ==
    {statusValid, statusInvalid, "pending", "processing", "deactivated"}

\* The switch of client.go:927-938 on chlng.Status: return nil, return an
\* error, or go on to sleep and poll again.
ChallengeOutcomeHasty(status) ==
    CASE status = statusValid -> [return |-> TRUE, err |-> NoError]
      [] status = "pending" -> [return |-> FALSE, err |-> NoError]
      [] status = "processing" -> [return |-> TRUE, err |-> NoError]
      [] status = statusInvalid -> [return |-> TRUE, err |-> "challenge error"]
      [] OTHER -> [return |-> TRUE,
                   err |-> "the server returned an unexpected state"]
ChallengeOutcome(status) ==
    CASE status = statusValid -> [return |-> TRUE, err |-> NoError]
      [] status = "pending" -> [return |-> FALSE, err |-> NoError]
      [] status = "processing" -> [return |-> FALSE, err |-> NoError]
      [] status = statusInvalid -> [return |-> TRUE, err |-> "challenge error"]
      [] OTHER -> [return |-> TRUE,
                   err |-> "the server returned an unexpected state"]

\* A request of validate was answered: with an error, which is returned, or
\* with a challenge whose status the switch looks at.
ValidateResponse(reqErr, status) ==
    IF reqErr # NoError
      THEN /\ vpc' = "returned"
           /\ validateErr' = reqErr
           /\ UNCHANGED statuses
      ELSE /\ statuses' = Append(statuses, status)
           /\ vpc' = IF ChallengeOutcome(status).return
                       THEN "returned" ELSE "polling"
           /\ validateErr' = ChallengeOutcome(status).err

validateFrame == <<newClientArgs, built, dirFetches, newClientErr,
                   certificates, revokePosts, revokeErr>>

\* client.go:920-923 and the first pass of the loop: the challenge is
\* POSTed to.
ValidatePost ==
    /\ vpc = "idle"
    /\ \E reqErr \in {NoError, "NetworkError"}, status \in ChallengeStatuses :
        ValidateResponse(reqErr, status)
    /\ UNCHANGED validateFrame
    /\ UNCHANGED <<acctVars, flowVars, auxVars>>

\* client.go:940-955 and the next pass of the loop: after the sleep the
\* challenge is fetched again.  Nothing but a response ends the loop; the
\* number of polls is capped here only to keep the model finite.
ValidatePoll ==
    /\ vpc = "polling"
    /\ Len(statuses) <= MaxPolls
    /\ \E reqErr \in {NoError, "NetworkError"}, status \in ChallengeStatuses :
        ValidateResponse(reqErr, status)
    /\ UNCHANGED validateFrame
    /\ UNCHANGED <<acctVars, flowVars, auxVars>>

-----------------------------------------------------------------------------
(* The domain list of RenewCertificate and of ObtainCertificateForCSR *)
(* (client.go:487-540, 337-352) *)

\* The DNS names (SANs) of a certificate or of a CSR are at most this many.
MaxNames == 3

\* Names a certificate can carry; two of them differ in case only.
CertNames == {"a.test", "A.test", "b.test"}

\* Subject.CommonName: a name, or empty when the subject has none.
CommonNames == CertNames \cup {""}

DNSNameLists == UNION {[1..n -> CertNames] : n \in 0..MaxNames}

Contains(ds, name) == \E i \in 1..Len(ds) : ds[i] = name

\* client.go:344-355: a SAN already in the list is skipped (==, which
\* compares the bytes), any other is appended.
AppendAlways(ds, name) == Append(ds, name)
AppendNew(ds, name) == IF Contains(ds, name) THEN ds ELSE Append(ds, name)

RECURSIVE AppendNames(_, _)
AppendNames(ds, rest) ==
    IF rest = <<>> THEN ds
    ELSE AppendNames(AppendNew(ds, Head(rest)), Tail(rest))

\* client.go:340-355: the common name, then the SANs.
CSRDomains(cn, dnsNames) == AppendNames(<<cn>>, dnsNames)

\* client.go:522-535: "check for SAN certificate".
RenewDomains(cn, dnsNames) ==
    IF Len(dnsNames) > 1
      THEN <<cn>> \o SelectSeq(dnsNames, LAMBDA d : d # cn)
      ELSE <<cn>>

NoDerived == [op |-> "none", cn |-> "", dnsNames |-> <<>>, csr |-> "none",
              callee |-> "none", domains |-> <<>>, err |-> NoError]

\* How far a renewal's decoding gets: parsePEMBundle fails; the bundle
\* starts with a CA certificate; the resource has a CSR, which decodes or
\* does not; it has none, and its private key is absent, parses or does not.
RenewInputs == {"bad bundle", "ca first", "csr", "bad csr",
                "no key", "key", "bad key"}

\* Client.RenewCertificate (client.go:487-540), up to the entry point it
\* hands the renewal to and the domains that entry point will order.  The
\* CSR a certificate was issued for carries the certificate's names.
\* One call is followed.
RenewCertificate ==
    /\ derived = NoDerived
    /\ \E cn \in CommonNames, dnsNames \in DNSNameLists, in \in RenewInputs :
        derived' =
            [op |-> "RenewCertificate", cn |-> cn, dnsNames |-> dnsNames,
             csr |-> IF in \in {"csr", "bad csr"} THEN "present" ELSE "none",
             callee |-> CASE in = "csr" -> "ObtainCertificateForCSR"
                          [] in \in {"no key", "key"} -> "ObtainCertificate"
                          [] OTHER -> "none",
             domains |-> CASE in = "csr" -> CSRDomains(cn, dnsNames)
                           [] in \in {"no key", "key"} -> RenewDomains(cn, dnsNames)
                           [] OTHER -> <<>>,
             err |-> CASE in = "bad bundle" -> "parsePEMBundle failed"
                       [] in = "ca first" ->
                            "Certificate bundle starts with a CA certificate"
                       [] in = "bad csr" -> "pemDecodeTox509CSR failed"
                       [] in = "bad key" -> "parsePEMPrivateKey failed"
                       [] OTHER -> NoError]
    /\ UNCHANGED <<acctVars, flowVars, opFrame, regVars, mwVars>>

\* The first statements of Client.ObtainCertificateForCSR (client.go:
\* 337-362): the domains it hands to createOrderForIdentifiers.  One call
\* is followed.
ObtainCertificateForCSRDomains ==
    /\ derived = NoDerived
    /\ \E cn \in CommonNames, dnsNames \in DNSNameLists :
        derived' =
            [op |-> "ObtainCertificateForCSR", cn |-> cn, dnsNames |-> dnsNames,
             csr |-> "present", callee |-> "createOrderForIdentifiers",
             domains |-> CSRDomains(cn, dnsNames), err |-> NoError]
    /\ UNCHANGED <<acctVars, flowVars, opFrame, regVars, mwVars>>

-----------------------------------------------------------------------------
(* middlewares/apikey: NewKeyExtractor and the extractors (extractor.go), *)
(* NewUsage and Usage.ServeHTTP (apikey.go) *)

\* NewUsage calls made in the process's life, one after another or at once.
MaxCalls == 3
\* The entries of a path ("a;b;...") the served Usage was built from.
MaxExtractors == 2
\* The members of a request body.
MaxBody == 2

Callers == 1..MaxCalls

\* What follows the position in a path entry: a header name, a query
\* parameter name, a gjson path.
KeyPaths == {"key", "other"}

\* A path entry "pos.rest" is the pair of its two parts; an entry without
\* a dot has none.
PathEntry(pos, rest) == [dot |-> TRUE, pos |-> pos, rest |-> rest]
NoDot == [dot |-> FALSE, pos |-> "", rest |-> ""]

\* strings.ToLower on the positions used here.
ToLower(pos) ==
    CASE pos = "Header" -> "header"
      [] pos = "BODY" -> "body"
      [] OTHER -> pos

\* NewKeyExtractor (extractor.go:51-67).
NewKeyExtractor(p) ==
    IF ~p.dot
      THEN [err |-> "create key extractor failed for path", pos |-> "", key |-> ""]
    ELSE IF ToLower(p.pos) \in {"param", "header", "body"}
      THEN [err |-> NoError, pos |-> ToLower(p.pos), key |-> p.rest]
    ELSE [err |-> "create key extractor failed for unspupport position",
          pos |-> "", key |-> ""]

\* A string is the sequence of its parts; the empty string is <<>>.  The
\* value found under a name in a header, a query or a body tells where it
\* was found.
Empty == <<>>
ValueAt(pos, key) == <<pos, key>>

\* A request body: the bytes not read yet, and whether reading them ends
\* in an error rather than in EOF.
NewBuffer(buf) == [data |-> buf, fails |-> FALSE]

\* ioutil.ReadAll: every byte up to EOF or to the error.
ReadAll(b) == [buf |-> b.data, err |-> b.fails,
               body |-> [data |-> <<>>, fails |-> b.fails]]

\* gjson.GetBytes(buf, path).String(): the member's value, "" without it.
GJson(buf, path) ==
    IF Contains(buf, path) THEN ValueAt("body", path) ELSE Empty

\* extractor.go:44: r.Body = ioutil.NopCloser(bytes.NewBuffer(buf)).
RestoreNot(read) == read.body
Restore(read) == NewBuffer(read.buf)

\* The three extractors (extractor.go:22-26, 28-36, 38-49) on request r
\* whose body is now b: the key, and the body the request is left with.
Extract(e, r, b) ==
    CASE e.pos = "header" ->
           [val |-> IF e.key \in r.header THEN ValueAt("header", e.key) ELSE Empty,
            body |-> b]
      [] e.pos = "param" ->
           [val |-> IF r.query = {} THEN Empty
                    ELSE IF e.key \in r.query THEN ValueAt("param", e.key)
                    ELSE Empty,
            body |-> b]
      [] e.pos = "body" ->
           LET read == ReadAll(b)
           IN  IF read.err
                 THEN [val |-> Empty, body |-> read.body]
                 ELSE [val |-> GJson(read.buf, e.key), body |-> Restore(read)]

\* apikey.go:59: break.
BreakNot(es) == Tail(es)
Break(es) == <<>>

Label(r, val) == [host |-> r.host, path |-> r.path, api_key |-> val]

\* The loop of ServeHTTP (apikey.go:56-61) over the extractors es: the
\* labels counted, in order, and the body the request is left with.
RECURSIVE Range(_, _, _, _)
Range(es, r, b, incs) ==
    IF es = <<>> THEN [incs |-> incs, body |-> b]
    ELSE LET x == Extract(Head(es), r, b)
         IN  IF Len(x.val) > 0
               THEN Range(Break(es), r, x.body, Append(incs, Label(r, x.val)))
               ELSE Range(Tail(es), r, x.body, incs)

Extractors == {[err |-> NoError, pos |-> "header", key |-> "key"],
               [err |-> NoError, pos |-> "param", key |-> "key"]}
              \cup {[err |-> NoError, pos |-> "body", key |-> k] : k \in KeyPaths}

ExtractorLists == UNION {[1..n -> Extractors] : n \in 1..MaxExtractors}

Bodies == UNION {[1..n -> KeyPaths] : n \in 0..MaxBody}

Requests ==
    [host : {"api.test"}, path : {"/v1"}, header : SUBSET {"key"},
     query : SUBSET {"key"}, body : Bodies, readErr : BOOLEAN]

NoUsage == [pc |-> "idle", extractor |-> <<>>, ret |-> "none", err |-> NoError,
            did |-> FALSE, counter |-> 0]

NoServed == [op |-> "none", by |-> 0]

InitApikey ==
    /\ once = "fresh"
    /\ counter = 0
    /\ registrations = <<>>
    /\ usage = [c \in Callers |-> NoUsage]
    /\ served = NoServed

apikeyFrame == <<acctVars, flowVars, opFrame, regVars, derived>>

\* The paths NewUsage is given: the entries between the semicolons.
UsagePaths ==
    {<<PathEntry("header", "key")>>,
     <<PathEntry("Header", "key"), PathEntry("body", "other")>>,
     <<PathEntry("param", "key"), PathEntry("BODY", "key")>>,
     <<PathEntry("cookie", "key")>>,
     <<PathEntry("param", "key"), NoDot>>,
     <<NoDot>>}

\* NewUsage (apikey.go:25-39): the extractors are built, the first entry
\* that has none ends the call.
NewUsageEnter(c) ==
    /\ usage[c].pc = "idle"
    /\ \E path \in UsagePaths :
        LET es == [i \in 1..Len(path) |-> NewKeyExtractor(path[i])]
            bad == {i \in 1..Len(path) : es[i].err # NoError}
        IN  usage' = [usage EXCEPT ![c] =
                IF bad # {}
                  THEN [pc |-> "returned", extractor |-> <<>>, ret |-> "error",
                        err |-> es[Min(bad)].err, did |-> FALSE, counter |-> 0]
                  ELSE [pc |-> "once", extractor |-> es, ret |-> "none",
                        err |-> NoError, did |-> FALSE, counter |-> 0]]
    /\ UNCHANGED <<once, counter, registrations, served>>
    /\ UNCHANGED apikeyFrame

\* sync.Once.Do runs its function when no call has run it before.
OnceFreshAlways(o) == o # "running"
OnceFresh(o) == o = "fresh"

\* once.Do (apikey.go:41) is entered: the first caller runs the function,
\* a caller that finds it running waits, a caller that finds it done goes
\* on and returns its Usage (apikey.go:49-52).
OnceDo(c) ==
    /\ usage[c].pc = "once"
    /\ once # "running"
    /\ IF OnceFresh(once)
         THEN /\ once' = "running"
              /\ usage' = [usage EXCEPT ![c].pc = "f"]
         ELSE /\ usage' = [usage EXCEPT ![c] =
                    [@ EXCEPT !.pc = "returned", !.ret = "usage",
                              !.counter = counter]]
              /\ UNCHANGED once
    /\ UNCHANGED <<counter, registrations, served>>
    /\ UNCHANGED apikeyFrame

\* The function of once.Do (apikey.go:41-47) and the return after it
\* (apikey.go:49-52): the counter is created and handed to
\* prometheus.Register, whose error ends the call.
OnceBody(c) ==
    /\ usage[c].pc = "f"
    /\ \E regErr \in {NoError, "AlreadyRegisteredError"} :
        /\ registrations' = Append(registrations, [by |-> c, err |-> regErr])
        /\ usage' = [usage EXCEPT ![c] =
              [@ EXCEPT !.pc = "returned", !.did = TRUE, !.err = regErr,
                        !.ret = IF regErr = NoError THEN "usage" ELSE "error",
                        !.extractor = IF regErr = NoError THEN @ ELSE <<>>,
                        !.counter = IF regErr = NoError THEN c ELSE 0]]
    /\ counter' = c
    /\ once' = "done"
    /\ UNCHANGED served
    /\ UNCHANGED apikeyFrame

\* Usage.ServeHTTP (apikey.go:55-66) of the Usage call c returned, on a
\* request r; next is nil or a handler, which reads the request's body.
\* One request is followed.
ServeHTTP(c) ==
    /\ usage[c].ret = "usage"
    /\ served = NoServed
    /\ \E r \in Requests, next \in {"nil", "handler"} :
        LET body == [data |-> r.body, fails |-> r.readErr]
            loop == Range(usage[c].extractor, r, body, <<>>)
            seen == ReadAll(loop.body)
        IN  served' =
              [op |-> "ServeHTTP", by |-> c, extractor |-> usage[c].extractor,
               r |-> r, next |-> next, incs |-> loop.incs,
               events |-> [i \in 1..Len(loop.incs) |-> "Inc"]
                          \o (IF next # "nil" THEN <<"next">> ELSE <<>>),
               nextBody |-> IF next # "nil" THEN seen.buf ELSE <<>>,
               nextErr |-> next # "nil" /\ seen.err]
    /\ UNCHANGED <<once, counter, registrations, usage>>
    /\ UNCHANGED apikeyFrame

-----------------------------------------------------------------------------
(* Specifications *)

\* The state of the other operations once NewClient has returned a client
\* (client.go:104): the directory was fetched once; nothing was revoked or
\* validated yet.
InitOps ==
    /\ newClientArgs = [called |-> TRUE, keyNil |-> FALSE,
                        dir |-> [ok |-> TRUE, NewAccountURL |-> "acct",
                                 NewOrderURL |-> "order"]]
    /\ built = TRUE
    /\ dirFetches = 1
    /\ newClientErr = NoError
    /\ certificates = NoBundle
    /\ revokePosts = 0
    /\ revokeErr = NoError
    /\ vpc = "idle"
    /\ statuses = <<>>
    /\ validateErr = NoError
    /\ InitRegistry
    /\ derived = NoDerived

Init ==
    /\ userReg = NoReg
    /\ kid = NewClientKid(userReg)
    /\ acctOp = "none"
    /\ acctResp = [err |-> NoError, Location |-> ""]
    /\ acctReg = NoReg
    /\ acctErr = NoError
    /\ kidBefore = kid
    /\ InitFlow
    /\ InitOps
    /\ InitApikey

Next ==
    \/ SetChallengeProviderOf(DNS01)
    \/ ObtainCertificate
    \/ ObtainCertificateForCSR
    \/ LaunchFetch
    \/ \E g \in AuthzIds : FetchReturns(g)
    \/ \E g \in AuthzIds : Collect(g)
    \/ FetchDone
    \/ SelectSolvers
    \/ PreSolveStep
    \/ SolveStep
    \/ CleanUpStep
    \/ SolveReturn
    \/ FinalizePost
    \/ PollTick
    \/ PollTimeout

Spec == Init /\ [][Next]_vars

InitAccount ==
    /\ userReg \in {NoReg} \cup {Reg(u) : u \in AccountURIs}
    /\ kid = NewClientKid(userReg)
    /\ acctOp = "none"
    /\ acctResp = [err |-> NoError, Location |-> ""]
    /\ acctReg = NoReg
    /\ acctErr = NoError
    /\ kidBefore = kid
    /\ InitFlow
    /\ InitOps
    /\ InitApikey

\* solveChallengeForAuthz on its own: called with any authorizations
\* getAuthzForOrder can return (here two authorizations may carry the same
\* identifier, as those of a name and of its wildcard do), with any
\* registry the registry operations can leave and any solver types.
SolveAuthorizations(i) ==
    AuthorizationsFor(i, DomainOf(i)) \cup AuthorizationsFor(i, DomainOf(1))

SolveInputs(n) ==
    {as \in [1..n -> UNION {SolveAuthorizations(i) : i \in 1..n}] :
        \A i \in 1..n : as[i] \in SolveAuthorizations(i)}

InitSolve ==
    /\ userReg = NoReg
    /\ kid = NewClientKid(userReg)
    /\ acctOp = "none"
    /\ acctResp = [err |-> NoError, Location |-> ""]
    /\ acctReg = NoReg
    /\ acctErr = NoError
    /\ kidBefore = kid
    /\ solvers \in SUBSET ChallengeTypes
    /\ caps \in CapChoices
    /\ pc = "select"
    /\ entry = "ObtainCertificate"
    /\ bundle = FALSE
    /\ \E n \in 1..MaxAuthz :
        /\ domains \in NameOrders(n)
        /\ launched = n
        /\ gor = [i \in AuthzIds |-> IF i <= n THEN "done" ELSE "unborn"]
        /\ received = n
        /\ authz \in SolveInputs(n)
    /\ msg = [i \in AuthzIds |-> NoMsg]
    /\ closed = TRUE
    /\ responses = authz
    /\ failures = EmptyMap
    /\ err = NilErr
    /\ authSolvers = <<>>
    /\ idx = 0
    /\ calls = <<>>
    /\ posts = 0
    /\ refetches = 0
    /\ elapsed = 0
    /\ retOrder = ""
    /\ lastReq = "none"
    /\ retCert = NilCert
    /\ retErr = NilErr
    /\ reqDomains = domains
    /\ identifiers = Identifiers(domains)
    /\ commonName = ""
    /\ certResp = NoDownload
    /\ InitOps
    /\ InitApikey

NextSolve ==
    \/ SelectSolvers
    \/ PreSolveStep
    \/ SolveStep
    \/ CleanUpStep
    \/ SolveReturn

SpecSolve == InitSolve /\ [][NextSolve]_vars

\* The finalization on its own: entered once every authorization of the
\* order is satisfied.  The ticker and the timer do fire.
InitFinalize ==
    /\ userReg = NoReg
    /\ kid = NewClientKid(userReg)
    /\ acctOp = "none"
    /\ acctResp = [err |-> NoError, Location |-> ""]
    /\ acctReg = NoReg
    /\ acctErr = NoError
    /\ kidBefore = kid
    /\ solvers = DefaultSolvers
    /\ caps = DnsCaps
    /\ pc = "finalize"
    /\ entry \in {"ObtainCertificate", "ObtainCertificateForCSR"}
    /\ bundle \in BOOLEAN
    /\ \E n \in 1..MaxAuthz :
        /\ domains \in NameOrders(n)
        /\ launched = n
        /\ gor = [i \in AuthzIds |-> IF i <= n THEN "done" ELSE "unborn"]
        /\ received = n
        /\ authz = [i \in 1..n |->
                      [id |-> i, Domain |-> DomainOf(i), Status |-> statusValid,
                       Challenges |-> <<DNS01, HTTP01>>, Error |-> NoError]]
    /\ msg = [i \in AuthzIds |-> NoMsg]
    /\ closed = TRUE
    /\ responses = authz
    /\ failures = EmptyMap
    /\ err = NilErr
    /\ authSolvers = <<>>
    /\ idx = 1
    /\ calls = <<>>
    /\ posts = 0
    /\ refetches = 0
    /\ elapsed = 0
    /\ retOrder = ""
    /\ lastReq = "none"
    /\ retCert = NilCert
    /\ retErr = NilErr
    /\ reqDomains = domains
    /\ identifiers = Identifiers(domains)
    /\ commonName = ""
    /\ certResp = NoDownload
    /\ InitOps
    /\ InitApikey

NextFinalize ==
    \/ FinalizePost
    \/ PollTick
    \/ PollTimeout

SpecFinalize ==
    InitFinalize /\ [][NextFinalize]_vars /\ WF_vars(NextFinalize)

NextAccount ==
    \/ Register
    \/ RegisterWithExternalAccountBinding
    \/ ResolveAccountByKey
    \/ QueryRegistration
    \/ DeleteRegistration
    \/ StoreRegistration

SpecAccount == InitAccount /\ [][NextAccount]_vars

\* One validate call, made by a solver of the constructed client.
InitValidate == Init

NextValidate ==
    \/ ValidatePost
    \/ ValidatePoll

SpecValidate == InitValidate /\ [][NextValidate]_vars

\* The client's life from before its construction: NewClient, which may
\* fail and be called again, then the account operations and revocation.
InitClient ==
    /\ userReg \in {NoReg} \cup {Reg(u) : u \in AccountURIs}
    /\ kid = ""
    /\ acctOp = "none"
    /\ acctResp = [err |-> NoError, Location |-> ""]
    /\ acctReg = NoReg
    /\ acctErr = NoError
    /\ kidBefore = kid
    /\ solvers = {}
    /\ caps = DnsCaps
    /\ InitCall
    /\ newClientArgs = NoArgs
    /\ built = FALSE
    /\ dirFetches = 0
    /\ newClientErr = NoError
    /\ certificates = NoBundle
    /\ revokePosts = 0
    /\ revokeErr = NoError
    /\ vpc = "idle"
    /\ statuses = <<>>
    /\ validateErr = NoError
    /\ providers = [t \in ChallengeTypes |-> ""]
    /\ excluded = {}
    /\ lastChange = [t \in ChallengeTypes |-> "none"]
    /\ regOp = NoRegOp
    /\ derived = NoDerived
    /\ InitApikey

\* The domains the two entry points that start from a certificate or a
\* CSR derive.
NextNames ==
    \/ RenewCertificate
    \/ ObtainCertificateForCSRDomains

SpecNames == Init /\ [][NextNames]_vars

\* The NewUsage calls of a process, interleaved.
NextUsage ==
    \/ \E c \in Callers : NewUsageEnter(c)
    \/ \E c \in Callers : OnceDo(c)
    \/ \E c \in Callers : OnceBody(c)

SpecUsage == Init /\ [][NextUsage]_vars

\* Requests served by a Usage that NewUsage returned: the counter was
\* created and registered by the call that built it.
InitServe ==
    /\ userReg = NoReg
    /\ kid = NewClientKid(userReg)
    /\ acctOp = "none"
    /\ acctResp = [err |-> NoError, Location |-> ""]
    /\ acctReg = NoReg
    /\ acctErr = NoError
    /\ kidBefore = kid
    /\ InitFlow
    /\ InitOps
    /\ once = "done"
    /\ counter = 1
    /\ registrations = <<[by |-> 1, err |-> NoError]>>
    /\ \E es \in ExtractorLists :
        usage = [c \in Callers |->
                   IF c = 1
                     THEN [pc |-> "returned", extractor |-> es, ret |-> "usage",
                           err |-> NoError, did |-> TRUE, counter |-> 1]
                     ELSE NoUsage]
    /\ served = NoServed

NextServe == \E c \in Callers : ServeHTTP(c)

SpecServe == InitServe /\ [][NextServe]_vars

\* The registry of a client from its construction on.
NextRegistry ==
    \/ NewClient
    \/ \E t \in RegistryArgs : SetChallengeProviderOf(t)
    \/ \E ts \in SUBSET RegistryArgs : ExcludeChallenges(ts)
    \/ SetHTTPAddress
    \/ SetTLSAddress

SpecRegistry == InitClient /\ [][NextRegistry]_vars

NextClient ==
    \/ NewClient
    \/ RevokeCertificate
    \/ (built /\ NextAccount)

SpecClient == InitClient /\ [][NextClient]_vars

-----------------------------------------------------------------------------
(* Properties *)

\* The positions in calls of the invocations of op for authorization id.
CallsOf(op, id) ==
    {k \in 1..Len(calls) : calls[k].op = op /\ calls[k].id = id}

\* Every authorization of the order was fetched and is valid or was solved.
AllAuthorized ==
    /\ Len(authz) = NumAuthz
    /\ \A i \in 1..Len(authz) :
          \/ authz[i].Status = statusValid
          \/ \E k \in CallsOf("Solve", authz[i].id) : calls[k].ok

\* A domain failed at fetch, at selection, at pre-solve or at solve.
FetchFailed == closed /\ Len(authz) < NumAuthz
SelectFailed ==
    /\ pc \notin {"idle", "launch", "collect", "select"}
    /\ \E i \in 1..Len(authz) :
          authz[i].Status # statusValid /\ ~ChooseSolver(authz[i]).found
CallFailed ==
    \E k \in 1..Len(calls) :
        calls[k].op \in {"PreSolve", "Solve"} /\ ~calls[k].ok
AnyFailure == FetchFailed \/ SelectFailed \/ CallFailed

\* C1: all-or-nothing issuance.  The finalize request is sent only when
\* every authorization of the order was fetched and is valid or was solved
\* successfully, a certificate is returned only after that request, and when
\* a domain failed at fetch, selection, pre-solve or solve no finalize
\* request is sent and no certificate is returned.
C1_AllOrNothing ==
    /\ [][posts' # posts => AllAuthorized]_vars
    /\ [](~retCert.isNil => posts = 1 /\ pc = "done")
    /\ [](AnyFailure => posts = 0 /\ retCert.isNil)

\* A certificate was returned for an order of several domains one of whose
\* authorizations had to be solved.
C1_Witness ==
    /\ pc = "done"
    /\ ~retCert.isNil
    /\ Len(authz) = MaxAuthz
    /\ \E i \in 1..Len(authz) : authz[i].Status = "pending"

C3_CleanUpAfterEverySolve ==
    pc = "solved" =>
        \A p \in 1..Len(authSolvers) :
            LET id == authSolvers[p].authz.id
            IN  ("cleanup" \in caps[authSolvers[p].solver]
                    /\ CallsOf("Solve", id) # {})
                => /\ Cardinality(CallsOf("CleanUp", id)) = 1
                   /\ \A sv \in CallsOf("Solve", id), c \in CallsOf("CleanUp", id) :
                          sv < c

\* C4: CleanUp is never invoked for an authorization that failed at
\* selection, nor for a pair whose PreSolve returned an error.
C4_NoCleanUpAfterEarlyFailure ==
    /\ \A i \in 1..Len(authz) :
          (authz[i].Status # statusValid /\ ~ChooseSolver(authz[i]).found)
              => CallsOf("CleanUp", authz[i].id) = {}
    /\ \A k \in 1..Len(calls) :
          (calls[k].op = "PreSolve" /\ ~calls[k].ok)
              => CallsOf("CleanUp", calls[k].id) = {}

\* The run ended with a pair whose PreSolve failed, an authorization that
\* had no solver, and the clean-up loop passed over both.
C4_Witness ==
    /\ pc = "solved"
    /\ \E k \in 1..Len(calls) :
          /\ calls[k].op = "PreSolve" /\ ~calls[k].ok
          /\ \E p \in 1..Len(authSolvers) :
                /\ authSolvers[p].authz.id = calls[k].id
                /\ "cleanup" \in caps[authSolvers[p].solver]
    /\ \E i \in 1..Len(authz) :
          authz[i].Status # statusValid /\ ~ChooseSolver(authz[i]).found

\* C5: no aggregation step returns an ObtainError without entries: the error
\* of getAuthzForOrder and solveChallengeForAuthz as the caller sees it,
\* and the error the entry points return, is an ObtainError only with at
\* least one entry, and is nil when the step's failure map is empty.
C5_NoEmptyObtainError ==
    /\ err.kind = "ObtainError" => DOMAIN err.failures # {}
    /\ retErr.kind = "ObtainError" =>
          DOMAIN retErr.failures # {} /\ retErr.failures = failures
    /\ (pc = "done" /\ failures = EmptyMap) => retErr.kind # "ObtainError"
    /\ (pc \in {"select", "finalize"} => err = NilErr)

\* Every aggregation step had an empty failure map and the call returned a
\* certificate with a nil error.
C5_Witness ==
    /\ pc = "done"
    /\ ~retCert.isNil
    /\ retErr = NilErr
    /\ failures = EmptyMap
    /\ Len(authz) = MaxAuthz

\* The goroutines that have delivered their completion.
Delivered == {g \in AuthzIds : gor[g] = "done"}

\* C6: getAuthzForOrder starts one fetch task per authorization URL and
\* returns (closes its channels) only when it has collected exactly that
\* many completions, successes and failures together, in whatever order they
\* arrive; while it waits for a completion there is a task still to deliver
\* one.
C6_CollectsAll ==
    /\ \A g \in AuthzIds : g > launched <=> gor[g] = "unborn"
    /\ launched <= NumAuthz
    /\ received = Cardinality(Delivered)
    /\ pc = "collect" => launched = NumAuthz
    /\ (pc = "collect" /\ received < NumAuthz) =>
          \E g \in AuthzIds : gor[g] \in {"fetching", "sendRes", "sendErr"}
    /\ closed =>
          /\ launched = NumAuthz
          /\ received = NumAuthz
          /\ Delivered = 1..NumAuthz
    /\ (pc = "collect" \/ closed) /\ entry # "" =>
          Len(responses) <= received

\* The fetch returned after completions that arrived out of launch order,
\* one of them a failure.
C6_Witness ==
    /\ closed
    /\ NumAuthz = MaxAuthz
    /\ Len(responses) = MaxAuthz - 1
    /\ responses[1].id = MaxAuthz
    /\ retErr.kind = "ObtainError"

\* The error returned is the polling timeout, recorded for every domain.
TimedOut ==
    /\ retErr.kind = "ObtainError"
    /\ DOMAIN retErr.failures = {authz[i].Domain : i \in 1..Len(authz)}
    /\ \A d \in DOMAIN retErr.failures :
          retErr.failures[d] = "certificate polling timed out"

\* C7: the finalize poll is bounded.  While the order is neither valid nor
\* invalid and the re-fetches succeed, the order is re-fetched once per
\* 500 ms tick, never past the 30-second deadline; such a call ends, at the
\* deadline, with the timeout error and no certificate; the poll always ends.
C7_BoundedPoll ==
    /\ [](pc = "poll" =>
            /\ elapsed <= StopTimerMs
            /\ refetches * RetryTickMs = elapsed
            /\ retOrder \notin {statusValid, statusInvalid})
    /\ [](refetches * RetryTickMs <= StopTimerMs)
    /\ []((/\ pc = "done"
           /\ posts = 1
           /\ lastReq = "ok"
           /\ retOrder \notin {statusValid, statusInvalid})
          => /\ retCert.isNil
             /\ TimedOut
             /\ elapsed + RetryTickMs >= StopTimerMs)
    /\ (pc = "poll" ~> pc = "done")

\* The CA answered every one of the re-fetches the deadline allows with a
\* status that is neither valid nor invalid, and the call timed out.
C7_Witness ==
    /\ pc = "done"
    /\ posts = 1
    /\ refetches * RetryTickMs = StopTimerMs
    /\ retOrder = "pending"
    /\ lastReq = "ok"
    /\ TimedOut

\* C8: whenever the CA reports the order invalid during finalization, in the
\* answer to the finalize POST or to a re-fetch, the call ends at once with
\* a non-nil error and no certificate.
C8_InvalidIsAnError ==
    retOrder = statusInvalid =>
        /\ pc = "done"
        /\ retCert.isNil
        /\ retErr.kind # "nil"

RegisterOps == {"Register", "RegisterWithExternalAccountBinding"}

\* C9: a new-account POST answered with a RemoteError of status 409 makes
\* Register and RegisterWithExternalAccountBinding return a resource and a
\* nil error; any other error of the POST makes them return no resource and
\* that error, with jws.kid left as it was.
C9_ConflictIsSuccess ==
    acctOp \in RegisterOps =>
        /\ acctResp.err = "RemoteError409" =>
              ~acctReg.isNil /\ acctErr = NoError
        /\ acctResp.err \in PostErrors \ {NoError, "RemoteError409"} =>
              /\ acctReg.isNil
              /\ acctErr = acctResp.err
              /\ kid = kidBefore

\* Register met a 409 that named the existing account and returned it.
C9_Witness ==
    /\ acctOp = "Register"
    /\ acctResp.err = "RemoteError409"
    /\ ~acctReg.isNil
    /\ acctReg.URI \in AccountURIs
    /\ acctErr = NoError

\* The last account operation returned a resource.
ReturnedResource == ~acctReg.isNil /\ acctErr = NoError

\* C10 as stated: after every account operation that returned a resource,
\* jws.kid is the URI of that resource.
C10_KidIsReturnedURI ==
    (acctOp \in RegisterOps \cup {"ResolveAccountByKey", "QueryRegistration"}
        /\ ReturnedResource)
    => kid = acctReg.URI

\* C10 as amended: after Register, RegisterWithExternalAccountBinding and
\* ResolveAccountByKey returned a resource, jws.kid is its URI;
\* QueryRegistration returns the URI of the user's registration and leaves
\* jws.kid as it was.
C10_KidIsReturnedURIUnlessQuery ==
    /\ (acctOp \in RegisterOps \cup {"ResolveAccountByKey"} /\ ReturnedResource)
          => kid = acctReg.URI
    /\ (acctOp = "QueryRegistration" /\ ReturnedResource)
          => kid = kidBefore /\ acctReg = userReg
    /\ acctOp = "QueryRegistration" => kid = kidBefore

\* QueryRegistration returned the user's registration while jws.kid names
\* another account.
C10_Witness ==
    /\ acctOp = "QueryRegistration"
    /\ ReturnedResource
    /\ kid # acctReg.URI
    /\ kid \in AccountURIs

\* C11: a RevokeCertificate call whose bundle decodes and starts with a CA
\* certificate returns an error and sends no revoke request; a revoke
\* request is sent only for a bundle whose leading certificate is no CA.
C11_NoRevokeOfCA ==
    /\ (certificates.called /\ certificates.err = NoError
           /\ certificates.certs[1].IsCA)
          => revokePosts = 0 /\ revokeErr # NoError
    /\ revokePosts \in {0, 1}
    /\ revokePosts = 1 =>
          /\ certificates.err = NoError
          /\ ~certificates.certs[1].IsCA

\* A bundle of a CA certificate followed by a leaf was refused.
C11_Witness ==
    /\ certificates.called
    /\ Len(certificates.certs) = 2
    /\ certificates.certs[1].IsCA
    /\ ~certificates.certs[2].IsCA
    /\ revokePosts = 0
    /\ revokeErr = "Certificate bundle starts with a CA certificate"

\* C12: for a domain list D without duplicates, the new-order request
\* carries one identifier per name of D in D's order, the order returned
\* has Domains = D, and the common name finalization uses, which is the
\* Domain of the certificate resource, is the first name of D.
C12_OrderPreserved ==
    /\ Len(identifiers) = Len(reqDomains)
    /\ \A i \in 1..Len(identifiers) :
          identifiers[i] = [Type |-> "dns", Value |-> reqDomains[i]]
    /\ domains # <<>> => domains = reqDomains
    /\ commonName # "" => commonName = reqDomains[1]
    /\ ~retCert.isNil => retCert.Domain = reqDomains[1]
    /\ posts > 0 => commonName = reqDomains[1]

\* A certificate was obtained for b.test followed by a.test.
C12_Witness ==
    /\ pc = "done"
    /\ reqDomains = <<"b.test", "a.test">>
    /\ identifiers = <<[Type |-> "dns", Value |-> "b.test"],
                       [Type |-> "dns", Value |-> "a.test"]>>
    /\ domains = reqDomains
    /\ ~retCert.isNil
    /\ retCert.Domain = "b.test"

\* The directory NewClient was given has both required URLs.
EndpointsPresent ==
    /\ newClientArgs.dir.ok
    /\ newClientArgs.dir.NewAccountURL # ""
    /\ newClientArgs.dir.NewOrderURL # ""

\* C13 as stated: every NewClient call requests the directory exactly once,
\* and returns a client exactly when the private key is not nil and the
\* directory was fetched and has its new-account and new-order URLs;
\* otherwise it returns an error.
C13_DirectoryFetchedOnce ==
    newClientArgs.called =>
        /\ dirFetches = 1
        /\ built <=> (~newClientArgs.keyNil /\ EndpointsPresent)
        /\ built <=> newClientErr = NoError

\* C13 as amended: a NewClient call given a nil private key fails before
\* any request, so it requests the directory zero times; every other call
\* requests it exactly once.  A client is returned exactly when the key is
\* not nil and the directory was fetched and has both URLs; otherwise an
\* error is returned.
C13_DirectoryFetchedOnceWithKey ==
    newClientArgs.called =>
        /\ dirFetches = IF newClientArgs.keyNil THEN 0 ELSE 1
        /\ built <=> (~newClientArgs.keyNil /\ EndpointsPresent)
        /\ built <=> newClientErr = NoError

\* NewClient was given a nil private key and a CA whose directory is
\* complete: it failed without a request.
C13_Witness ==
    /\ newClientArgs.called
    /\ newClientArgs.keyNil
    /\ EndpointsPresent
    /\ dirFetches = 0
    /\ ~built
    /\ newClientErr = "private key was nil"

\* The selection of solveChallengeForAuthz has run.
Selected == pc \in {"presolve", "solve", "cleanup", "solved", "finalize", "done"}

\* The selected pairs of authorization id.
PairsOf(id) == {p \in 1..Len(authSolvers) : authSolvers[p].authz.id = id}

\* Some challenge of authorization a has a type with a registered solver.
Solvable(a) == \E j \in 1..Len(a.Challenges) : a.Challenges[j] \in solvers

\* C14: once the selection has run, every authorization that was not valid
\* and offers a challenge whose type has a solver is paired with the first
\* such challenge, in the CA's order, and with that type's solver; every
\* authorization that was not valid and offers none has its domain in the
\* failure map, is in no pair and has no PreSolve, Solve or CleanUp call.
C14_FirstMatchingSolver ==
    Selected =>
        /\ \A p \in 1..Len(authSolvers) :
              LET a == authSolvers[p].authz
                  i == authSolvers[p].challengeIndex
              IN  /\ a.Status # statusValid
                  /\ i \in 1..Len(a.Challenges)
                  /\ a.Challenges[i] \in solvers
                  /\ \A j \in 1..(i - 1) : a.Challenges[j] \notin solvers
                  /\ authSolvers[p].solver = a.Challenges[i]
        /\ \A k \in 1..Len(authz) :
              authz[k].Status # statusValid =>
                  IF Solvable(authz[k])
                    THEN Cardinality(PairsOf(authz[k].id)) = 1
                    ELSE /\ PairsOf(authz[k].id) = {}
                         /\ authz[k].Domain \in DOMAIN failures
                         /\ \A c \in 1..Len(calls) : calls[c].id # authz[k].id

\* One authorization was paired with its second challenge, the first one's
\* type having no solver, and solved; another offered no challenge with a
\* solver and failed at the selection.
C14_Witness ==
    /\ pc = "solved"
    /\ \E p \in 1..Len(authSolvers) :
          /\ authSolvers[p].challengeIndex = 2
          /\ CallsOf("Solve", authSolvers[p].authz.id) # {}
    /\ \E k \in 1..Len(authz) :
          /\ authz[k].Status # statusValid
          /\ ~Solvable(authz[k])
          /\ Get(failures, authz[k].Domain) = "could not determine solvers"

\* The identifier of the authorization a solver invocation was made for.
DomainOfCall(c) ==
    authSolvers[CHOOSE p \in 1..Len(authSolvers) :
                    authSolvers[p].authz.id = c.id].authz.Domain

\* A PreSolve invocation for domain d failed.
PreSolveFailed(d) ==
    \E k \in 1..Len(calls) :
        calls[k].op = "PreSolve" /\ ~calls[k].ok /\ DomainOfCall(calls[k]) = d

\* The selection recorded a failure for domain d.
SelectFailedFor(d) ==
    \E k \in 1..Len(authz) :
        /\ authz[k].Domain = d
        /\ authz[k].Status # statusValid
        /\ ~Solvable(authz[k])

\* The Solve of a pair before pair p, for the same domain, failed.
EarlierSolveFailed(p) ==
    \E q \in 1..(p - 1) :
        /\ authSolvers[q].authz.Domain = authSolvers[p].authz.Domain
        /\ \E k \in CallsOf("Solve", authSolvers[q].authz.id) : ~calls[k].ok

\* C15: when solveChallengeForAuthz has run, PreSolve was invoked exactly
\* once for every selected pair whose solver has the capability, whatever
\* failed for other pairs; Solve was not invoked for a pair whose domain had
\* a failed PreSolve; and Solve was invoked exactly once for every pair
\* whose domain had no failure when its turn came.
C15_PreSolveFailureIsolated ==
    pc = "solved" =>
        \A p \in 1..Len(authSolvers) :
            LET id == authSolvers[p].authz.id
                d == authSolvers[p].authz.Domain
            IN  /\ Cardinality(CallsOf("PreSolve", id)) =
                      IF "preSolver" \in caps[authSolvers[p].solver] THEN 1 ELSE 0
                /\ PreSolveFailed(d) => CallsOf("Solve", id) = {}
                /\ Cardinality(CallsOf("Solve", id)) =
                      IF SelectFailedFor(d) \/ PreSolveFailed(d)
                            \/ EarlierSolveFailed(p)
                        THEN 0 ELSE 1

\* Of two selected pairs for different domains, the first one's PreSolve
\* failed; the second was still pre-solved and solved, the first was not
\* solved.
C15_Witness ==
    /\ pc = "solved"
    /\ Len(authSolvers) = 2
    /\ authSolvers[1].authz.Domain # authSolvers[2].authz.Domain
    /\ \E k \in CallsOf("PreSolve", authSolvers[1].authz.id) : ~calls[k].ok
    /\ CallsOf("Solve", authSolvers[1].authz.id) = {}
    /\ CallsOf("PreSolve", authSolvers[2].authz.id) # {}
    /\ CallsOf("Solve", authSolvers[2].authz.id) # {}

\* The rank of a solver invocation's phase.
PhaseRank(op) ==
    CASE op = "PreSolve" -> 1
      [] op = "Solve" -> 2
      [] op = "CleanUp" -> 3

\* C16: within one run of solveChallengeForAuthz the solver invocations
\* come in three phases: every PreSolve before every Solve, every CleanUp
\* after every Solve, whatever the domains; and no Solve is made before the
\* pre-solve loop is over, no CleanUp before the solve loop is over.
C16_StrictPhases ==
    /\ \A i, j \in 1..Len(calls) :
          i < j => PhaseRank(calls[i].op) <= PhaseRank(calls[j].op)
    /\ pc = "presolve" => \A i \in 1..Len(calls) : calls[i].op = "PreSolve"
    /\ pc = "solve" => \A i \in 1..Len(calls) : calls[i].op # "CleanUp"

\* Two pairs were each pre-solved, solved and cleaned up.
C16_Witness ==
    /\ pc = "solved"
    /\ Len(authSolvers) = 2
    /\ \A p \in 1..2 :
          /\ CallsOf("PreSolve", authSolvers[p].authz.id) # {}
          /\ CallsOf("Solve", authSolvers[p].authz.id) # {}
          /\ CallsOf("CleanUp", authSolvers[p].authz.id) # {}

\* The status of the challenge validate received last.
LastStatus == statuses[Len(statuses)]

\* C17: validate returns nil only when the status received last is valid;
\* it returns an error when that status is invalid or is none of valid,
\* pending, processing and invalid, or when a request failed; after a
\* pending or processing status it has not returned and, there being no
\* deadline, polls again.
C17_ValidateUntilDefinitive ==
    /\ vpc = "returned" =>
          \/ validateErr = "NetworkError"
          \/ /\ statuses # <<>>
             /\ CASE LastStatus = statusValid -> validateErr = NoError
                  [] LastStatus = statusInvalid -> validateErr = "challenge error"
                  [] LastStatus \in {"pending", "processing"} -> FALSE
                  [] OTHER -> validateErr =
                                  "the server returned an unexpected state"
    /\ (vpc = "returned" /\ validateErr = NoError) =>
          statuses # <<>> /\ LastStatus = statusValid
    /\ (vpc # "idle" /\ statuses # <<>> /\ validateErr # "NetworkError"
           /\ LastStatus \in {"pending", "processing"}) =>
          /\ vpc = "polling"
          /\ Len(statuses) <= MaxPolls => ENABLED ValidatePoll
    /\ vpc = "polling" =>
          \A i \in 1..Len(statuses) : statuses[i] \in {"pending", "processing"}

\* validate returned nil after the challenge was pending, then processing,
\* then valid.
C17_Witness ==
    /\ vpc = "returned"
    /\ validateErr = NoError
    /\ statuses = <<"pending", "processing", statusValid>>

\* A Solve invocation for domain d failed.
SolveFailed(d) ==
    \E k \in 1..Len(calls) :
        calls[k].op = "Solve" /\ ~calls[k].ok /\ DomainOfCall(calls[k]) = d

\* The domains for which the selection, a PreSolve or a Solve failed.
FailedDomains ==
    {authz[k].Domain : k \in 1..Len(authz)} \cap
        {d \in {authz[k].Domain : k \in 1..Len(authz)} :
            SelectFailedFor(d) \/ PreSolveFailed(d) \/ SolveFailed(d)}

\* C18: the failure map of solveChallengeForAuthz, and so the error it
\* returns, holds the domains whose selection, PreSolve or Solve failed and
\* nothing else, whatever the CleanUp calls returned; and every pair whose
\* solver cleans up and whose domain has no failure gets its CleanUp call,
\* whatever the CleanUp calls before it returned.
C18_CleanUpErrorsNotEscalated ==
    /\ pc \in {"cleanup", "solved"} => DOMAIN failures = FailedDomains
    /\ (pc \in {"finalize", "done"} /\ Selected) =>
          /\ DOMAIN failures = FailedDomains
          /\ err = AsError(failures)
          /\ err.kind = "nil" <=> FailedDomains = {}
    /\ pc = "solved" =>
          \A p \in 1..Len(authSolvers) :
              ("cleanup" \in caps[authSolvers[p].solver]
                  /\ authSolvers[p].authz.Domain \notin FailedDomains)
              => Cardinality(CallsOf("CleanUp", authSolvers[p].authz.id)) = 1

\* The CleanUp of the first of two pairs failed, the second pair was still
\* cleaned up, and solveChallengeForAuthz returned nil.
C18_Witness ==
    /\ pc = "finalize"
    /\ err.kind = "nil"
    /\ Len(authSolvers) = 2
    /\ \E k \in CallsOf("CleanUp", authSolvers[1].authz.id) : ~calls[k].ok
    /\ CallsOf("CleanUp", authSolvers[2].authz.id) # {}

\* The call ended in a certificate download that worked, with an "up" link.
DownloadedWithUpLink ==
    /\ pc = "done"
    /\ lastReq = "ok"
    /\ retOrder = statusValid
    /\ certResp.certOk
    /\ certResp.up

\* C19: when the order is valid and the certificate response carries an
\* "up" link, the call returns the certificate whether or not the issuer
\* can be fetched: with an empty IssuerCertificate and the leaf alone if the
\* fetch fails; with IssuerCertificate set and, as Certificate, the leaf
\* followed by the issuer when bundle is true and the leaf alone when it is
\* false, if the fetch succeeds.
C19_IssuerBundling ==
    DownloadedWithUpLink =>
        /\ ~retCert.isNil
        /\ retErr.kind = "nil"
        /\ IF certResp.issuerOk
             THEN /\ retCert.IssuerCertificate = <<"issuer">>
                  /\ retCert.Certificate =
                        IF bundle THEN <<"leaf", "issuer">> ELSE <<"leaf">>
             ELSE /\ retCert.IssuerCertificate = <<>>
                  /\ retCert.Certificate = <<"leaf">>

\* A certificate asked for without bundling was returned as the leaf alone,
\* the issuer it was fetched with beside it.
C19_Witness ==
    /\ DownloadedWithUpLink
    /\ certResp.issuerOk
    /\ ~bundle
    /\ retCert.Certificate = <<"leaf">>
    /\ retCert.IssuerCertificate = <<"issuer">>

\* The call went into finalization, every authorization being satisfied,
\* and has returned.
Finalized == pc = "done" /\ commonName # ""

\* The domains of the order.
OrderDomains == {domains[i] : i \in 1..Len(domains)}

FailedFetches == received - Len(responses)

\* C21: when getAuthzForOrder has returned, its failure map has one entry
\* per failed fetch, each under the name of a domain of the order whose
\* authorization was not returned, and the authorizations returned are
\* those of the other domains.
C21_OneEntryPerFailedDomain ==
    (closed /\ FailedFetches > 0) =>
        /\ Cardinality(DOMAIN failures) = FailedFetches
        /\ DOMAIN failures =
              OrderDomains \ {responses[i].Domain : i \in 1..Len(responses)}

\* C22: a renewal without a preserved CSR orders the certificate's common
\* name first, then every DNS name of the certificate that differs from
\* it: no DNS name of the certificate is left out, however many it has.
C22_RenewCoversEveryName ==
    (derived.op = "RenewCertificate" /\ derived.callee = "ObtainCertificate") =>
        /\ derived.domains =
              <<derived.cn>> \o SelectSeq(derived.dnsNames, LAMBDA d : d # derived.cn)
        /\ \A i \in 1..Len(derived.dnsNames) :
              Contains(derived.domains, derived.dnsNames[i])

\* The domains were derived from a CSR.
FromCSR ==
    \/ derived.op = "ObtainCertificateForCSR"
    \/ derived.callee = "ObtainCertificateForCSR"

FirstAt(names, x) == Min({i \in 1..Len(names) : names[i] = x})

\* C23: the domains derived from a CSR start with its common name, go on
\* with its SANs in their original order, each once (names that differ in
\* case only are different names), and leave no SAN out.
C23_CSRDomainsUnique ==
    FromCSR =>
        LET ds == derived.domains
            sans == derived.dnsNames
        IN  /\ ds[1] = derived.cn
            /\ \A p, q \in 1..Len(ds) : p # q => ds[p] # ds[q]
            /\ \A i \in 1..Len(sans) : Contains(ds, sans[i])
            /\ \A p \in 2..Len(ds) : Contains(sans, ds[p])
            /\ \A p, q \in 2..Len(ds) :
                  p < q => FirstAt(sans, ds[p]) < FirstAt(sans, ds[q])

\* A CSR that repeats its common name and a SAN, and has a SAN that
\* differs from the common name in case only.
C23_Witness ==
    /\ derived.op = "ObtainCertificateForCSR"
    /\ derived.cn = "a.test"
    /\ derived.dnsNames = <<"A.test", "a.test", "A.test">>
    /\ derived.domains = <<"a.test", "A.test">>

\* The registry is what the operations made on the client leave.
RegistryAsOperated ==
    built =>
        /\ solvers \subseteq ChallengeTypes
        /\ \A t \in ChallengeTypes :
              t \in solvers <=>
                 \/ t \in DefaultSolvers /\ t \notin excluded
                 \/ lastChange[t] = "SetChallengeProvider"

\* What one registry operation may do to the registry.
RegistryStep ==
    /\ regOp'.op \in {"SetHTTPAddress", "SetTLSAddress"} => solvers' = solvers
    /\ regOp'.err # NoError => solvers' = solvers
    /\ regOp'.op = "ExcludeChallenges" =>
          solvers' = {t \in solvers : t \notin regOp'.arg}
    /\ (regOp'.op = "SetChallengeProvider" /\ regOp'.err = NoError) =>
          solvers' = solvers \cup regOp'.arg

\* C24: after any sequence of NewClient, SetChallengeProvider,
\* ExcludeChallenges, SetHTTPAddress and SetTLSAddress a challenge type has
\* a solver exactly when it is HTTP-01 or TLS-ALPN-01 and was never
\* excluded, or the last operation that touched its entry was a successful
\* SetChallengeProvider; ExcludeChallenges removes the types it is given,
\* the two address setters and a failed operation leave the set of
\* registered types as it was.
C24_RegistryFollowsOperations ==
    []RegistryAsOperated /\ [][RegistryStep]_vars

\* HTTP-01 was excluded and SetHTTPAddress then succeeded; DNS-01 was
\* registered, TLS-ALPN-01 excluded and registered again.
C24_Witness ==
    /\ regOp.op = "SetHTTPAddress"
    /\ regOp.err = NoError
    /\ HTTP01 \in excluded
    /\ solvers = {DNS01, TLSALPN01}
    /\ TLSALPN01 \in excluded

\* No fetch goroutine is left behind once the channels are closed.
NoneLeftBehind ==
    closed =>
        \A g \in 1..NumAuthz : gor[g] = "done" /\ msg[g] = NoMsg

\* A fetch goroutine goes through one fetch and one send, and each send is
\* one completion collected.
OneSendEach ==
    /\ \A g \in AuthzIds :
          gor'[g] # gor[g] =>
              <<gor[g], gor'[g]>> \in
                  {<<"unborn", "fetching">>, <<"fetching", "sendRes">>,
                   <<"fetching", "sendErr">>, <<"sendRes", "done">>,
                   <<"sendErr", "done">>}
    /\ received' - received =
          Cardinality({g \in AuthzIds : gor[g] \in {"sendRes", "sendErr"}
                                           /\ gor'[g] = "done"})
    /\ closed => gor' = gor

\* C25: in getAuthzForOrder every fetch goroutine sends one message and
\* ends, every send is received, and the channels are closed only when
\* all goroutines have ended: none sends on a closed channel and none
\* stays blocked after the function has returned.
C25_OneSendPerGoroutine ==
    []NoneLeftBehind /\ [][OneSendEach]_vars

\* The fetch returned with a success and a failure collected, every
\* goroutine ended.
C25_Witness ==
    /\ closed
    /\ NumAuthz = MaxAuthz
    /\ \A g \in 1..MaxAuthz : gor[g] = "done"
    /\ Len(responses) = 1
    /\ Cardinality(DOMAIN failures) = 1

\* C26: an ObtainCertificate or ObtainCertificateForCSR call returns a
\* certificate or an error, never both and never neither: with a nil error
\* the resource is non-nil and its Certificate is non-empty, with a non-nil
\* error the resource is nil.
C26_CertificateOrError ==
    pc = "done" =>
        \/ retErr.kind = "nil" /\ ~retCert.isNil /\ retCert.Certificate # <<>>
        \/ retErr.kind # "nil" /\ retCert.isNil

\* What an extractor yields on the request as it arrived.
ValueOf(e, r) ==
    CASE e.pos = "header" ->
           IF e.key \in r.header THEN ValueAt("header", e.key) ELSE Empty
      [] e.pos = "param" ->
           IF e.key \in r.query THEN ValueAt("param", e.key) ELSE Empty
      [] e.pos = "body" ->
           IF ~r.readErr /\ Contains(r.body, e.key)
             THEN ValueAt("body", e.key) ELSE Empty

Yielding(es, r) == {i \in 1..Len(es) : ValueOf(es[i], r) # Empty}

\* C27: for one request ServeHTTP increments the counter at most once,
\* under the key of the first extractor, in configured order, that yields
\* a non-empty key, and not at all when none does; the next handler, when
\* there is one, is called once, after the counting.
C27_CountsFirstKeyOnce ==
    served.op = "ServeHTTP" =>
        LET es == served.extractor
            r == served.r
        IN  /\ Len(served.incs) <= 1
            /\ served.incs =
                  IF Yielding(es, r) = {} THEN <<>>
                  ELSE <<Label(r, ValueOf(es[Min(Yielding(es, r))], r))>>
            /\ served.events =
                  [i \in 1..Len(served.incs) |-> "Inc"]
                  \o (IF served.next = "nil" THEN <<>> ELSE <<"next">>)

\* Both extractors of the Usage find a key in the request; the first one's
\* is counted, then the next handler runs.
C27_Witness ==
    /\ served.op = "ServeHTTP"
    /\ Len(served.extractor) = 2
    /\ Yielding(served.extractor, served.r) = {1, 2}
    /\ served.extractor[1].pos = "body"
    /\ served.extractor[2].pos = "header"
    /\ served.events = <<"Inc", "next">>

\* C28: however the NewUsage calls interleave, the counter is created and
\* registered at most once; a registration error is returned only by the
\* call that registered; every other call whose path entries are all valid
\* returns a Usage, and all of these use the one counter.
C28_RegisteredOnce ==
    /\ Len(registrations) <= 1
    /\ counter = IF registrations = <<>> THEN 0 ELSE registrations[1].by
    /\ \A c \in Callers :
          usage[c].pc = "returned" =>
              /\ usage[c].err = "AlreadyRegisteredError" => usage[c].did
              /\ usage[c].did => registrations[1].by = c
              /\ (~usage[c].did /\ usage[c].err = NoError) =>
                    /\ usage[c].ret = "usage"
                    /\ counter # 0
                    /\ usage[c].counter = counter

\* The registering call returned the registration's error; two other
\* calls returned a Usage on the counter it created.
C28_Witness ==
    \E c \in Callers :
        /\ usage[c].did
        /\ usage[c].ret = "error"
        /\ \A d \in Callers \ {c} :
              usage[d].ret = "usage" /\ usage[d].counter = c

\* C29: when the request's body is read without error, the next handler
\* reads the original body in full after the extractors have run,
\* whichever paths they looked up and whether or not a key was found.
C29_BodyIntact ==
    (served.op = "ServeHTTP" /\ served.next = "handler" /\ ~served.r.readErr) =>
        /\ served.nextBody = served.r.body
        /\ ~served.nextErr

\* Two body extractors ran, the first found nothing; the next handler read
\* the whole body.
C29_Witness ==
    /\ served.op = "ServeHTTP"
    /\ served.next = "handler"
    /\ ~served.r.readErr
    /\ Len(served.extractor) = 2
    /\ \A i \in 1..2 : served.extractor[i].pos = "body"
    /\ Yielding(served.extractor, served.r) = {2}
    /\ Len(served.r.body) = MaxBody
    /\ served.nextBody = served.r.body

====
